---- MODULE Spec2Model ----
(***************************************************************************)
(* The policy generator plugin (package internal): Plugin.Config, which    *)
(* is applyDefaults followed by assertValidConfig, and Plugin.Generate,    *)
(* which appends Policy, PlacementRule and PlacementBinding documents to   *)
(* the plugin's output buffer.                                             *)
(***************************************************************************)
EXTENDS Integers, Sequences, FiniteSets, TLC

\* Longest policy list of the generation inputs.
MaxPolicies == 3
\* Longest policy list of the validation inputs.
MaxRawPolicies == 2
\* Longest manifest list of a policy of the validation inputs.
MaxManifests == 1
\* Longest policy list of the defaulting inputs.
MaxDefaultedPolicies == 2
\* Longest policy list and longest manifest list of the loading inputs.
MaxLoadedPolicies == 2
MaxLoadedManifests == 2
\* Longest policy list of the inputs of a Plugin whose Generate is called
\* again, and the most calls of Generate on it.
MaxRepeatedPolicies == 2
MaxGenerateCalls == 2
\* Most generator config files of one run of main.
MaxGenerators == 2
\* Most manifest slots of a validation input: its policies times its longest
\* manifest list.
MaxRawSlots == 3

policyAPIVersion == "policy.open-cluster-management.io/v1"
policyKind == "Policy"
configPolicyKind == "ConfigurationPolicy"
placementRuleAPIVersion == "apps.open-cluster-management.io/v1"
placementRuleKind == "PlacementRule"
placementBindingAPIVersion == "policy.open-cluster-management.io/v1"
placementBindingKind == "PlacementBinding"

\* The nil error.
NoError == "<nil>"

\* A map[string]string with no entry (nil or empty: len() is 0 for both).
EmptyMap == [k \in {} |-> ""]

\* len() of a map.
MapLen(m) == Cardinality(DOMAIN m)

(***************************************************************************)
(* The filesystem the configuration refers to.  It does not change while   *)
(* the plugin runs.  A path outside DOMAIN Files does not exist.           *)
(***************************************************************************)
YAMLObject(kind, metadata) == [isMap |-> TRUE, kind |-> kind, metadata |-> metadata]

\* A YAML document whose top level is a scalar or a list.
YAMLScalar == [isMap |-> FALSE]

\* The place of a file where the YAML decoder reports an error.
YAMLSyntaxError == [isMap |-> FALSE, syntaxError |-> TRUE]

\* A keyed object without a kind.
YAMLObjectNoKind(metadata) == [isMap |-> TRUE, metadata |-> metadata]

RegularFile(docs) == [isDir |-> FALSE, entries |-> <<>>, docs |-> docs]

\* A directory; entries is what ioutil.ReadDir returns: sorted by filename.
Directory(entries) == [isDir |-> TRUE, entries |-> entries, docs |-> <<>>]

DirEntry(name, ext, isDir) == [name |-> name, ext |-> ext, isDir |-> isDir]

Files ==
    ("cm.yaml" :> RegularFile(<<YAMLObject("ConfigMap", [name |-> "my-configmap"])>>))
    @@ ("plrA.yaml" :> RegularFile(<<
            YAMLObject("ConfigMap", [name |-> "my-configmap"]),
            YAMLObject("PlacementRule", [name |-> "plr-a", namespace |-> "ns"]),
            YAMLObject("PlacementRule", [name |-> "plr-a2", namespace |-> "ns"])>>))
    @@ ("plrX.yaml" :> RegularFile(<<
            YAMLObject("PlacementRule", [name |-> "placement-p1", namespace |-> "ns"])>>))
    @@ ("plrY.yaml" :> RegularFile(<<
            YAMLObject("PlacementRule", [name |-> "placement-p2", namespace |-> "ns"])>>))
    @@ ("plrOther.yaml" :> RegularFile(<<
            YAMLObject("PlacementRule", [name |-> "plr-o", namespace |-> "other"])>>))
    @@ ("empty.yaml" :> RegularFile(<<>>))
    @@ ("two.yaml" :> RegularFile(<<
            YAMLObject("ConfigMap", [name |-> "configmap-a"]),
            YAMLObject("Secret", [name |-> "secret-b"])>>))
    @@ ("mixed.yaml" :> RegularFile(<<
            YAMLObject("ConfigMap", [name |-> "my-configmap"]), YAMLScalar>>))
    @@ ("bad.yaml" :> RegularFile(<<
            YAMLObject("ConfigMap", [name |-> "my-configmap"]), YAMLSyntaxError,
            YAMLScalar>>))
    @@ ("dir" :> Directory(<<DirEntry("a.yaml", ".yaml", FALSE),
                             DirEntry("b.yml", ".yml", FALSE),
                             DirEntry("c.txt", ".txt", FALSE),
                             DirEntry("sub.yaml", ".yaml", TRUE)>>))
    @@ ("dir/a.yaml" :> RegularFile(<<YAMLObject("ConfigMap", [name |-> "dir-a"])>>))
    @@ ("dir/b.yml" :> RegularFile(<<>>))
    @@ ("dir/c.txt" :> RegularFile(<<YAMLScalar>>))
    @@ ("dir/sub.yaml" :> Directory(<<>>))
    @@ ("configs" :> Directory(<<DirEntry("a.yml", ".yml", FALSE),
                                 DirEntry("b.yaml", ".yaml", FALSE),
                                 DirEntry("nested", "", TRUE),
                                 DirEntry("z.json", ".json", FALSE)>>))
    @@ ("configs/a.yml" :> RegularFile(<<YAMLObject("ConfigMap", [name |-> "configs-a"])>>))
    @@ ("configs/b.yaml" :> RegularFile(<<
            YAMLObject("Secret", [name |-> "configs-b1"]),
            YAMLObject("ConfigMap", [name |-> "configs-b2"])>>))
    @@ ("configs/nested" :> Directory(<<DirEntry("c.yaml", ".yaml", FALSE)>>))
    @@ ("configs/nested/c.yaml" :> RegularFile(<<
            YAMLObject("ConfigMap", [name |-> "configs-nested-c"])>>))
    @@ ("configs/z.json" :> RegularFile(<<YAMLObject("ConfigMap", [name |-> "configs-z"])>>))
    @@ ("emptydir" :> Directory(<<DirEntry("notes.txt", ".txt", FALSE)>>))
    @@ ("emptydir/notes.txt" :> RegularFile(<<YAMLObject("ConfigMap", [name |-> "notes"])>>))
    @@ ("blankdir" :> Directory(<<DirEntry("e.yaml", ".yaml", FALSE)>>))
    @@ ("blankdir/e.yaml" :> RegularFile(<<>>))
    @@ ("plrNoName.yaml" :> RegularFile(<<
            YAMLObject("PlacementRule", [namespace |-> "ns"]),
            YAMLObject("PlacementRule", [name |-> "plr-late", namespace |-> "ns"])>>))
    @@ ("plrNoNs.yaml" :> RegularFile(<<
            YAMLObjectNoKind([name |-> "plr-nokind", namespace |-> "ns"]),
            YAMLObject("PlacementRule", [name |-> "plr-n"]),
            YAMLObject("PlacementRule", [name |-> "plr-late", namespace |-> "ns"])>>))
    @@ ("plrEmptyName.yaml" :> RegularFile(<<
            YAMLObject("PlacementRule", [name |-> "", namespace |-> "ns"])>>))

\* os.Stat(path) returns no error.
Stat(path) == path \in DOMAIN Files

(***************************************************************************)
(* The configuration types.  A []string is a record that tells a nil slice *)
(* from an empty one.                                                      *)
(***************************************************************************)
NilSlice == [isNil |-> TRUE, elems |-> <<>>]

Slice(elems) == [isNil |-> FALSE, elems |-> elems]

manifest(path) == [Path |-> path]

namespaceSelector(exclude, include) == [Exclude |-> exclude, Include |-> include]

\* A policyConfig as yaml.Unmarshal leaves it when only the name, the
\* manifests and the placement are configured.
policyConfig(name, manifests, clusterSelectors, placementRulePath) ==
    [Categories |-> NilSlice,
     ComplianceType |-> "",
     Controls |-> NilSlice,
     Disabled |-> FALSE,
     Manifests |-> manifests,
     Name |-> name,
     NamespaceSelector |-> namespaceSelector(NilSlice, NilSlice),
     Placement |-> [ClusterSelectors |-> clusterSelectors,
                    PlacementRulePath |-> placementRulePath],
     RemediationAction |-> "",
     Severity |-> "",
     Standards |-> NilSlice]

\* A Plugin as yaml.Unmarshal leaves it when only the binding name, the
\* namespace, the default placement and the policies are configured.
Plugin(bindingName, namespace, clusterSelectors, placementRulePath, policies) ==
    [PlacementBindingDefaults |-> [Name |-> bindingName],
     PolicyDefaults |->
        [Categories |-> NilSlice,
         ComplianceType |-> "",
         Controls |-> NilSlice,
         Namespace |-> namespace,
         NamespaceSelector |-> namespaceSelector(NilSlice, NilSlice),
         Placement |-> [ClusterSelectors |-> clusterSelectors,
                        PlacementRulePath |-> placementRulePath],
         RemediationAction |-> "",
         Severity |-> "",
         Standards |-> NilSlice],
     Policies |-> policies]

(***************************************************************************)
(* Plugin.applyDefaults                                                    *)
(***************************************************************************)
\* applyGlobalDefaults that has no default for the standards.
applyGlobalDefaults_NoStandards(defaults) ==
    [defaults EXCEPT
        !.Categories = IF @.isNil THEN Slice(<<"CM Configuration Management">>) ELSE @,
        !.ComplianceType = IF @ = "" THEN "musthave" ELSE @,
        !.Controls = IF @.isNil THEN Slice(<<"CM-2 Baseline Configuration">>) ELSE @,
        !.RemediationAction = IF @ = "" THEN "inform" ELSE @,
        !.Severity = IF @ = "" THEN "low" ELSE @]

\* The defaults of p.PolicyDefaults that are not overridden.
applyGlobalDefaults(defaults) ==
    [defaults EXCEPT
        !.Categories = IF @.isNil THEN Slice(<<"CM Configuration Management">>) ELSE @,
        !.ComplianceType = IF @ = "" THEN "musthave" ELSE @,
        !.Controls = IF @.isNil THEN Slice(<<"CM-2 Baseline Configuration">>) ELSE @,
        !.RemediationAction = IF @ = "" THEN "inform" ELSE @,
        !.Severity = IF @ = "" THEN "low" ELSE @,
        !.Standards = IF @.isNil THEN Slice(<<"NIST SP 800-53">>) ELSE @]

\* applyPlacementDefaults that takes the default selectors as well as the
\* default path.
applyPlacementDefaults_Both(defaults, placement) ==
    IF MapLen(placement.ClusterSelectors) = 0 /\ placement.PlacementRulePath = ""
    THEN [ClusterSelectors |->
              IF MapLen(defaults.Placement.ClusterSelectors) > 0
              THEN defaults.Placement.ClusterSelectors ELSE placement.ClusterSelectors,
          PlacementRulePath |->
              IF defaults.Placement.PlacementRulePath # ""
              THEN defaults.Placement.PlacementRulePath ELSE placement.PlacementRulePath]
    ELSE placement

\* The placement of a policy after defaulting: the defaults are used only
\* when neither field is set, with a priority on the placement rule path.
applyPlacementDefaults(defaults, placement) ==
    IF MapLen(placement.ClusterSelectors) = 0 /\ placement.PlacementRulePath = ""
    THEN IF defaults.Placement.PlacementRulePath # ""
         THEN [placement EXCEPT !.PlacementRulePath = defaults.Placement.PlacementRulePath]
         ELSE IF MapLen(defaults.Placement.ClusterSelectors) > 0
              THEN [placement EXCEPT !.ClusterSelectors = defaults.Placement.ClusterSelectors]
              ELSE placement
    ELSE placement

\* applyPolicyDefaults that gives an unset severity the fixed default.
applyPolicyDefaults_FixedSeverity(defaults, policy) ==
    [policy EXCEPT
        !.Categories = IF @.isNil THEN defaults.Categories ELSE @,
        !.ComplianceType = IF @ = "" THEN defaults.ComplianceType ELSE @,
        !.Controls = IF @.isNil THEN defaults.Controls ELSE @,
        !.Placement = applyPlacementDefaults(defaults, @),
        !.NamespaceSelector = IF @.Exclude.isNil /\ @.Include.isNil
                              THEN defaults.NamespaceSelector ELSE @,
        !.RemediationAction = IF @ = "" THEN defaults.RemediationAction ELSE @,
        !.Severity = IF @ = "" THEN "low" ELSE @,
        !.Standards = IF @.isNil THEN defaults.Standards ELSE @]

\* applyPolicyDefaults that takes a list of length 0 for an unset one.
applyPolicyDefaults_EmptyIsUnset(defaults, policy) ==
    [policy EXCEPT
        !.Categories = IF Len(@.elems) = 0 THEN defaults.Categories ELSE @,
        !.ComplianceType = IF @ = "" THEN defaults.ComplianceType ELSE @,
        !.Controls = IF Len(@.elems) = 0 THEN defaults.Controls ELSE @,
        !.Placement = applyPlacementDefaults(defaults, @),
        !.NamespaceSelector = IF @.Exclude.isNil /\ @.Include.isNil
                              THEN defaults.NamespaceSelector ELSE @,
        !.RemediationAction = IF @ = "" THEN defaults.RemediationAction ELSE @,
        !.Severity = IF @ = "" THEN defaults.Severity ELSE @,
        !.Standards = IF Len(@.elems) = 0 THEN defaults.Standards ELSE @]

\* The body of the loop over p.Policies; defaults are the defaulted
\* p.PolicyDefaults.
applyPolicyDefaults(defaults, policy) ==
    [policy EXCEPT
        !.Categories = IF @.isNil THEN defaults.Categories ELSE @,
        !.ComplianceType = IF @ = "" THEN defaults.ComplianceType ELSE @,
        !.Controls = IF @.isNil THEN defaults.Controls ELSE @,
        !.Placement = applyPlacementDefaults(defaults, @),
        !.NamespaceSelector = IF @.Exclude.isNil /\ @.Include.isNil
                              THEN defaults.NamespaceSelector ELSE @,
        !.RemediationAction = IF @ = "" THEN defaults.RemediationAction ELSE @,
        !.Severity = IF @ = "" THEN defaults.Severity ELSE @,
        !.Standards = IF @.isNil THEN defaults.Standards ELSE @]

\* applyBindingNameDefault that derives the name however many policies
\* there are.
applyBindingNameDefault_AnyCount(plugin) ==
    IF plugin.PlacementBindingDefaults.Name = ""
    THEN "binding-" \o plugin.Policies[1].Name
    ELSE plugin.PlacementBindingDefaults.Name

\* The binding name after defaulting.
applyBindingNameDefault(plugin) ==
    IF plugin.PlacementBindingDefaults.Name = "" /\ Len(plugin.Policies) = 1
    THEN "binding-" \o plugin.Policies[1].Name
    ELSE plugin.PlacementBindingDefaults.Name

applyDefaults(plugin) ==
    IF Len(plugin.Policies) = 0 THEN plugin
    ELSE LET defaults == applyGlobalDefaults(plugin.PolicyDefaults) IN
         [PlacementBindingDefaults |-> [Name |-> applyBindingNameDefault(plugin)],
          PolicyDefaults |-> defaults,
          Policies |-> [k \in 1..Len(plugin.Policies) |->
                            applyPolicyDefaults(defaults, plugin.Policies[k])]]

(***************************************************************************)
(* Plugin.assertValidConfig                                                *)
(***************************************************************************)
ErrBindingName == "placementBindingDefaults.name must be set when there are mutiple policies"
ErrNamespace == "policyDefaults.namespace is empty but it must be set"
ErrNoPolicies == "policies is empty but it must be set"
ErrPlacementBoth ==
    "a policy may not specify placement.clusterSelectors and placement.placementRulePath together"
ErrNoManifests == "each policy must have at least one manifest"
ErrManifestPathUnset == "each policy manifest entry must have path set"
ErrManifestPath(path) == "could not read the manifest path " \o path
ErrNameUnset == "each policy must have a name set"
ErrNameNotUnique(name) == "each policy must have a unique name set: " \o name
ErrPlacementRulePath(path) == "could not read the placement rule path " \o path

\* The loop over policy.Manifests, from entry k on.
RECURSIVE assertValidManifests(_, _)
assertValidManifests(manifests, k) ==
    IF k > Len(manifests) THEN NoError
    ELSE IF manifests[k].Path = "" THEN ErrManifestPathUnset
    ELSE IF ~Stat(manifests[k].Path) THEN ErrManifestPath(manifests[k].Path)
    ELSE assertValidManifests(manifests, k + 1)

\* assertValidPolicy without the check of seen.
assertValidPolicy_NoUnique(policy, seenNames) ==
    IF MapLen(policy.Placement.ClusterSelectors) # 0 /\ policy.Placement.PlacementRulePath # ""
    THEN ErrPlacementBoth
    ELSE IF Len(policy.Manifests) = 0 THEN ErrNoManifests
    ELSE IF assertValidManifests(policy.Manifests, 1) # NoError
    THEN assertValidManifests(policy.Manifests, 1)
    ELSE IF policy.Name = "" THEN ErrNameUnset
    ELSE IF policy.Placement.PlacementRulePath # "" /\ ~Stat(policy.Placement.PlacementRulePath)
    THEN ErrPlacementRulePath(policy.Placement.PlacementRulePath)
    ELSE NoError

\* assertValidPolicy without the check that the two placement fields are
\* not set together.
assertValidPolicy_NoExclusion(policy, seenNames) ==
    IF Len(policy.Manifests) = 0 THEN ErrNoManifests
    ELSE IF assertValidManifests(policy.Manifests, 1) # NoError
    THEN assertValidManifests(policy.Manifests, 1)
    ELSE IF policy.Name = "" THEN ErrNameUnset
    ELSE IF policy.Name \in seenNames THEN ErrNameNotUnique(policy.Name)
    ELSE IF policy.Placement.PlacementRulePath # "" /\ ~Stat(policy.Placement.PlacementRulePath)
    THEN ErrPlacementRulePath(policy.Placement.PlacementRulePath)
    ELSE NoError

\* assertValidPolicy with the checks of the name before those of the
\* manifests.
assertValidPolicy_NameFirst(policy, seenNames) ==
    IF MapLen(policy.Placement.ClusterSelectors) # 0 /\ policy.Placement.PlacementRulePath # ""
    THEN ErrPlacementBoth
    ELSE IF policy.Name = "" THEN ErrNameUnset
    ELSE IF policy.Name \in seenNames THEN ErrNameNotUnique(policy.Name)
    ELSE IF Len(policy.Manifests) = 0 THEN ErrNoManifests
    ELSE IF assertValidManifests(policy.Manifests, 1) # NoError
    THEN assertValidManifests(policy.Manifests, 1)
    ELSE IF policy.Placement.PlacementRulePath # "" /\ ~Stat(policy.Placement.PlacementRulePath)
    THEN ErrPlacementRulePath(policy.Placement.PlacementRulePath)
    ELSE NoError

\* The body of the loop over p.Policies; seenNames holds the names of the
\* policies before this one.
assertValidPolicy(policy, seenNames) ==
    IF MapLen(policy.Placement.ClusterSelectors) # 0 /\ policy.Placement.PlacementRulePath # ""
    THEN ErrPlacementBoth
    ELSE IF Len(policy.Manifests) = 0 THEN ErrNoManifests
    ELSE IF assertValidManifests(policy.Manifests, 1) # NoError
    THEN assertValidManifests(policy.Manifests, 1)
    ELSE IF policy.Name = "" THEN ErrNameUnset
    ELSE IF policy.Name \in seenNames THEN ErrNameNotUnique(policy.Name)
    ELSE IF policy.Placement.PlacementRulePath # "" /\ ~Stat(policy.Placement.PlacementRulePath)
    THEN ErrPlacementRulePath(policy.Placement.PlacementRulePath)
    ELSE NoError

\* The loop over p.Policies, from policy k on.
RECURSIVE assertValidPolicies(_, _, _)
assertValidPolicies(policies, k, seenNames) ==
    IF k > Len(policies) THEN NoError
    ELSE IF assertValidPolicy(policies[k], seenNames) # NoError
    THEN assertValidPolicy(policies[k], seenNames)
    ELSE assertValidPolicies(policies, k + 1, seenNames \cup {policies[k].Name})

\* assertValidConfig without the check of the namespace.
assertValidConfig_NoNamespace(plugin) ==
    IF plugin.PlacementBindingDefaults.Name = "" /\ Len(plugin.Policies) > 1 THEN ErrBindingName
    ELSE IF Len(plugin.Policies) = 0 THEN ErrNoPolicies
    ELSE assertValidPolicies(plugin.Policies, 1, {})

assertValidConfig(plugin) ==
    IF plugin.PlacementBindingDefaults.Name = "" /\ Len(plugin.Policies) > 1 THEN ErrBindingName
    ELSE IF plugin.PolicyDefaults.Namespace = "" THEN ErrNamespace
    ELSE IF Len(plugin.Policies) = 0 THEN ErrNoPolicies
    ELSE assertValidPolicies(plugin.Policies, 1, {})

(***************************************************************************)
(* unmarshalManifestFile and getPolicyTemplate                             *)
(***************************************************************************)
ErrReadManifestFile(path) == "failed to read the manifest file " \o path
ErrNotYAMLObject == "the input manifests must be in the format of YAML objects"
ErrReadManifestDir(path) == "failed to read the manifest directory " \o path
ErrNoManifestDocs(name) ==
    "the policy " \o name \o " must specify at least one non-empty manifest file"

\* The error of the YAML decoder.
ErrYAML == "yaml: did not find expected node content"

\* The loop over d.Decode, from document k of the file on; yamlDocs is the
\* slice of the documents decoded so far.
RECURSIVE decodeFrom(_, _, _)
decodeFrom(docs, k, yamlDocs) ==
    IF k > Len(docs) THEN [err |-> NoError, docs |-> yamlDocs]
    ELSE IF "syntaxError" \in DOMAIN docs[k] THEN [err |-> ErrYAML, docs |-> <<>>]
    ELSE IF ~docs[k].isMap THEN [err |-> ErrNotYAMLObject, docs |-> <<>>]
    ELSE decodeFrom(docs, k + 1, Append(yamlDocs, docs[k]))

\* unmarshalManifestFile that returns what it decoded before the error.
unmarshalManifestFile_KeepDecoded(manifestPath) ==
    IF ~Stat(manifestPath) \/ Files[manifestPath].isDir
    THEN [err |-> ErrReadManifestFile(manifestPath), docs |-> <<>>]
    ELSE LET decoded == decodeFrom(Files[manifestPath].docs, 1, <<>>) IN
         IF decoded.err = NoError THEN decoded
         ELSE [err |-> decoded.err,
               docs |-> SelectSeq(Files[manifestPath].docs, LAMBDA doc : doc.isMap)]

\* The documents of the file, or an error and no documents.
unmarshalManifestFile(manifestPath) ==
    IF ~Stat(manifestPath) \/ Files[manifestPath].isDir
    THEN [err |-> ErrReadManifestFile(manifestPath), docs |-> <<>>]
    ELSE decodeFrom(Files[manifestPath].docs, 1, <<>>)

\* path.Join(dir, name)
PathJoin(dir, name) == dir \o "/" \o name

\* dirManifestPaths that puts each file before those found earlier.
RECURSIVE dirManifestPaths_Reversed(_, _, _)
dirManifestPaths_Reversed(dir, entries, k) ==
    IF k > Len(entries) THEN <<>>
    ELSE IF entries[k].isDir \/ entries[k].ext \notin {".yaml", ".yml"}
    THEN dirManifestPaths_Reversed(dir, entries, k + 1)
    ELSE dirManifestPaths_Reversed(dir, entries, k + 1) \o <<PathJoin(dir, entries[k].name)>>

\* The manifestPaths of one manifest entry that exists: the .yaml and .yml
\* files of a directory, or the path itself.
RECURSIVE dirManifestPaths(_, _, _)
dirManifestPaths(dir, entries, k) ==
    IF k > Len(entries) THEN <<>>
    ELSE IF entries[k].isDir \/ entries[k].ext \notin {".yaml", ".yml"}
    THEN dirManifestPaths(dir, entries, k + 1)
    ELSE <<PathJoin(dir, entries[k].name)>> \o dirManifestPaths(dir, entries, k + 1)

manifestPathsOf(path) ==
    IF Files[path].isDir THEN dirManifestPaths(path, Files[path].entries, 1)
    ELSE <<path>>

\* The loop over manifestPaths, from path k on; acc is the manifests slice.
RECURSIVE loadManifestPaths(_, _, _)
loadManifestPaths(manifestPaths, k, acc) ==
    IF k > Len(manifestPaths) THEN [err |-> NoError, docs |-> acc]
    ELSE LET manifestFile == unmarshalManifestFile(manifestPaths[k]) IN
         IF manifestFile.err # NoError THEN [err |-> manifestFile.err, docs |-> <<>>]
         ELSE loadManifestPaths(manifestPaths, k + 1, acc \o manifestFile.docs)

\* The loop over policyConf.Manifests, from entry k on.
RECURSIVE loadManifests(_, _, _)
loadManifests(manifests, k, acc) ==
    IF k > Len(manifests) THEN [err |-> NoError, docs |-> acc]
    ELSE IF ~Stat(manifests[k].Path)
    THEN [err |-> ErrReadManifestDir(manifests[k].Path), docs |-> <<>>]
    ELSE LET loaded == loadManifestPaths(manifestPathsOf(manifests[k].Path), 1, acc) IN
         IF loaded.err # NoError THEN loaded
         ELSE loadManifests(manifests, k + 1, loaded.docs)

\* getPolicyTemplate without the check for an empty manifests slice.
getPolicyTemplate_NoEmptyCheck(policyConf) ==
    LET loaded == loadManifests(policyConf.Manifests, 1, <<>>) IN
    IF loaded.err # NoError THEN [err |-> loaded.err, template |-> <<>>]
    ELSE [err |-> NoError,
          template |-> <<[objectDefinition |->
              [apiVersion |-> policyAPIVersion,
               kind |-> configPolicyKind,
               name |-> policyConf.Name,
               spec |-> [remediationAction |-> policyConf.RemediationAction,
                         severity |-> policyConf.Severity,
                         objectTemplates |-> loaded.docs]]]>>]

getPolicyTemplate(policyConf) ==
    LET loaded == loadManifests(policyConf.Manifests, 1, <<>>) IN
    IF loaded.err # NoError THEN [err |-> loaded.err, template |-> <<>>]
    ELSE IF Len(loaded.docs) = 0
    THEN [err |-> ErrNoManifestDocs(policyConf.Name), template |-> <<>>]
    ELSE [err |-> NoError,
          template |-> <<[objectDefinition |->
              [apiVersion |-> policyAPIVersion,
               kind |-> configPolicyKind,
               name |-> policyConf.Name,
               spec |-> [remediationAction |-> policyConf.RemediationAction,
                         severity |-> policyConf.Severity,
                         objectTemplates |-> loaded.docs]]]>>]

(***************************************************************************)
(* The output buffer: every Write appends one chunk, the separator or the  *)
(* YAML of one document.                                                   *)
(***************************************************************************)
Separator == [kind |-> "---"]

\* p.outputBuffer.Write("---\n") followed by p.outputBuffer.Write(yaml)
WriteDocument(buffer, doc) == buffer \o <<Separator, doc>>

\* strings.Join(slice, ",")
RECURSIVE JoinFrom(_, _)
JoinFrom(elems, k) ==
    IF k > Len(elems) THEN ""
    ELSE IF k = Len(elems) THEN elems[k]
    ELSE elems[k] \o "," \o JoinFrom(elems, k + 1)

StringsJoin(slice) == JoinFrom(slice.elems, 1)

(***************************************************************************)
(* Plugin.createPolicy                                                     *)
(***************************************************************************)
\* createPolicy that writes the separator before it builds the document.
createPolicy_SeparatorFirst(plugin, buffer, policyConf) ==
    LET policyTemplate == getPolicyTemplate(policyConf) IN
    IF policyTemplate.err # NoError
    THEN [err |-> policyTemplate.err, buffer |-> Append(buffer, Separator)]
    ELSE [err |-> NoError,
          buffer |-> WriteDocument(buffer,
              [apiVersion |-> policyAPIVersion,
               kind |-> policyKind,
               metadata |-> [annotations |->
                                [categories |-> StringsJoin(policyConf.Categories),
                                 controls |-> StringsJoin(policyConf.Controls),
                                 standards |-> StringsJoin(policyConf.Standards)],
                             name |-> policyConf.Name,
                             namespace |-> plugin.PolicyDefaults.Namespace],
               spec |-> [disabled |-> policyConf.Disabled,
                         policyTemplates |-> policyTemplate.template,
                         remediationAction |-> policyConf.RemediationAction]])]

createPolicy(plugin, buffer, policyConf) ==
    LET policyTemplate == getPolicyTemplate(policyConf) IN
    IF policyTemplate.err # NoError
    THEN [err |-> policyTemplate.err, buffer |-> buffer]
    ELSE [err |-> NoError,
          buffer |-> WriteDocument(buffer,
              [apiVersion |-> policyAPIVersion,
               kind |-> policyKind,
               metadata |-> [annotations |->
                                [categories |-> StringsJoin(policyConf.Categories),
                                 controls |-> StringsJoin(policyConf.Controls),
                                 standards |-> StringsJoin(policyConf.Standards)],
                             name |-> policyConf.Name,
                             namespace |-> plugin.PolicyDefaults.Namespace],
               spec |-> [disabled |-> policyConf.Disabled,
                         policyTemplates |-> policyTemplate.template,
                         remediationAction |-> policyConf.RemediationAction]])]

(***************************************************************************)
(* Plugin.createPlacementRule                                              *)
(***************************************************************************)
ErrPlrNoName(plrPath) == "the placement " \o plrPath \o " must have a name set"
ErrPlrNoNamespace(plrPath) == "the placement " \o plrPath \o " must have a namespace set"
ErrPlrNamespace(plrPath, namespace) ==
    "the placement " \o plrPath \o " must have the same namespace as the policy ("
        \o namespace \o ")"
ErrNoPlr(plrPath) == "the placement manifest " \o plrPath \o " did not have a placement rule"

\* unstructured.NestedString(manifest, "kind"); "" when there is none.
NestedKind(doc) == IF "kind" \in DOMAIN doc THEN doc.kind ELSE ""

\* findPlacementRule that goes on to the next document when a PlacementRule
\* has no name.
RECURSIVE findPlacementRule_SkipUnnamed(_, _, _, _)
findPlacementRule_SkipUnnamed(plugin, plrPath, docs, k) ==
    IF k > Len(docs) THEN [err |-> NoError, name |-> "", rule |-> <<>>]
    ELSE IF NestedKind(docs[k]) # placementRuleKind \/ "name" \notin DOMAIN docs[k].metadata
    THEN findPlacementRule_SkipUnnamed(plugin, plrPath, docs, k + 1)
    ELSE IF "namespace" \notin DOMAIN docs[k].metadata
    THEN [err |-> ErrPlrNoNamespace(plrPath), name |-> docs[k].metadata.name, rule |-> <<>>]
    ELSE IF docs[k].metadata.namespace # plugin.PolicyDefaults.Namespace
    THEN [err |-> ErrPlrNamespace(plrPath, plugin.PolicyDefaults.Namespace),
          name |-> docs[k].metadata.name, rule |-> <<>>]
    ELSE [err |-> NoError, name |-> docs[k].metadata.name, rule |-> <<docs[k]>>]

\* findPlacementRule that does not compare the namespace of the rule with
\* that of the policies.
RECURSIVE findPlacementRule_AnyNamespace(_, _, _, _)
findPlacementRule_AnyNamespace(plugin, plrPath, docs, k) ==
    IF k > Len(docs) THEN [err |-> NoError, name |-> "", rule |-> <<>>]
    ELSE IF NestedKind(docs[k]) # placementRuleKind
    THEN findPlacementRule_AnyNamespace(plugin, plrPath, docs, k + 1)
    ELSE IF "name" \notin DOMAIN docs[k].metadata
    THEN [err |-> ErrPlrNoName(plrPath), name |-> "", rule |-> <<>>]
    ELSE IF "namespace" \notin DOMAIN docs[k].metadata
    THEN [err |-> ErrPlrNoNamespace(plrPath), name |-> docs[k].metadata.name, rule |-> <<>>]
    ELSE [err |-> NoError, name |-> docs[k].metadata.name, rule |-> <<docs[k]>>]

\* The loop over the documents of the placement file, from document k
\* on: the first document of kind PlacementRule decides.
RECURSIVE findPlacementRule(_, _, _, _)
findPlacementRule(plugin, plrPath, docs, k) ==
    IF k > Len(docs) THEN [err |-> NoError, name |-> "", rule |-> <<>>]
    ELSE IF NestedKind(docs[k]) # placementRuleKind
    THEN findPlacementRule(plugin, plrPath, docs, k + 1)
    ELSE IF "name" \notin DOMAIN docs[k].metadata
    THEN [err |-> ErrPlrNoName(plrPath), name |-> "", rule |-> <<>>]
    ELSE IF "namespace" \notin DOMAIN docs[k].metadata
    THEN [err |-> ErrPlrNoNamespace(plrPath), name |-> docs[k].metadata.name, rule |-> <<>>]
    ELSE IF docs[k].metadata.namespace # plugin.PolicyDefaults.Namespace
    THEN [err |-> ErrPlrNamespace(plrPath, plugin.PolicyDefaults.Namespace),
          name |-> docs[k].metadata.name, rule |-> <<>>]
    ELSE [err |-> NoError, name |-> docs[k].metadata.name, rule |-> <<docs[k]>>]

\* The names of the labels a selector may use, in the order of sort.Strings.
LabelOrder == <<"apple", "env", "zebra">>

\* a < b for strings
StringLess(a, b) ==
    \E j, k \in DOMAIN LabelOrder : j < k /\ LabelOrder[j] = a /\ LabelOrder[k] = b

\* The sorted slice with one more key in its place.
RECURSIVE insertSorted(_, _)
insertSorted(sorted, key) ==
    IF sorted = <<>> THEN <<key>>
    ELSE IF StringLess(key, Head(sorted)) THEN <<key>> \o sorted
    ELSE <<Head(sorted)>> \o insertSorted(Tail(sorted), key)

\* sort.Strings that leaves the slice as it is.
sortStrings_Unsorted(keys) == keys

\* sort.Strings(keys)
RECURSIVE sortStrings(_)
sortStrings(keys) ==
    IF keys = <<>> THEN <<>>
    ELSE insertSorted(sortStrings(SubSeq(keys, 1, Len(keys) - 1)), keys[Len(keys)])

\* The orders in which a range over the map may yield its keys.
KeyOrders(m) ==
    {keys \in [1..Cardinality(DOMAIN m) -> DOMAIN m] :
        \A j, k \in DOMAIN keys : j # k => keys[j] # keys[k]}

\* The match expressions of the selectors, whose keys the range yielded in
\* the order of ranged.
matchExpressionsOf(clusterSelectors, rangedKeys) ==
    LET keys == sortStrings(rangedKeys) IN
    [k \in 1..Len(keys) |->
        [key |-> keys[k], operator |-> "In", values |-> <<clusterSelectors[keys[k]]>>]]

\* The name of the synthesized placement rule of a policy.
synthesizedName(policyConf) == "placement-" \o policyConf.Name

\* The synthesized placement rule of a policy without placementRulePath.
synthesizedPlacementRule(plugin, policyConf, rangedKeys) ==
    [apiVersion |-> placementRuleAPIVersion,
     kind |-> placementRuleKind,
     metadata |-> [name |-> synthesizedName(policyConf),
                   namespace |-> plugin.PolicyDefaults.Namespace],
     spec |-> [clusterConditions |->
                  <<[status |-> "True", type |-> "ManagedClusterConditionAvailable"]>>,
               clusterSelector |->
                  [matchExpressions |->
                      matchExpressionsOf(policyConf.Placement.ClusterSelectors, rangedKeys)]]]

\* skip[name]
skipped(skip, name) == name \in skip

\* createPlacementRule that consults skip for a synthesized rule too.
createPlacementRule_SkipSeen(plugin, buffer, policyConf, skip, rangedKeys) ==
    LET plrPath == policyConf.Placement.PlacementRulePath IN
    IF plrPath # ""
    THEN LET manifests == unmarshalManifestFile(plrPath)
             first == findPlacementRule(plugin, plrPath, manifests.docs, 1)
         IN IF manifests.err # NoError
            THEN [name |-> "", err |-> manifests.err, buffer |-> buffer]
            ELSE IF first.err # NoError
            THEN [name |-> first.name, err |-> first.err, buffer |-> buffer]
            ELSE IF skipped(skip, first.name)
            THEN [name |-> first.name, err |-> NoError, buffer |-> buffer]
            ELSE IF first.name = ""
            THEN [name |-> "", err |-> ErrNoPlr(plrPath), buffer |-> buffer]
            ELSE [name |-> first.name, err |-> NoError,
                  buffer |-> WriteDocument(buffer, first.rule[1])]
    ELSE IF skipped(skip, synthesizedName(policyConf))
    THEN [name |-> synthesizedName(policyConf), err |-> NoError, buffer |-> buffer]
    ELSE [name |-> synthesizedName(policyConf), err |-> NoError,
          buffer |-> WriteDocument(buffer,
                        synthesizedPlacementRule(plugin, policyConf, rangedKeys))]

\* createPlacementRule that never writes the rule of a placement file.
createPlacementRule_ExternalUnwritten(plugin, buffer, policyConf, skip, rangedKeys) ==
    LET plrPath == policyConf.Placement.PlacementRulePath IN
    IF plrPath # ""
    THEN LET manifests == unmarshalManifestFile(plrPath)
             first == findPlacementRule(plugin, plrPath, manifests.docs, 1)
         IN IF manifests.err # NoError
            THEN [name |-> "", err |-> manifests.err, buffer |-> buffer]
            ELSE IF first.err # NoError
            THEN [name |-> first.name, err |-> first.err, buffer |-> buffer]
            ELSE IF skipped(skip, first.name)
            THEN [name |-> first.name, err |-> NoError, buffer |-> buffer]
            ELSE IF first.name = ""
            THEN [name |-> "", err |-> ErrNoPlr(plrPath), buffer |-> buffer]
            ELSE [name |-> first.name, err |-> NoError, buffer |-> buffer]
    ELSE [name |-> synthesizedName(policyConf), err |-> NoError,
          buffer |-> WriteDocument(buffer,
                        synthesizedPlacementRule(plugin, policyConf, rangedKeys))]

createPlacementRule(plugin, buffer, policyConf, skip, rangedKeys) ==
    LET plrPath == policyConf.Placement.PlacementRulePath IN
    IF plrPath # ""
    THEN LET manifests == unmarshalManifestFile(plrPath)
             first == findPlacementRule(plugin, plrPath, manifests.docs, 1)
         IN IF manifests.err # NoError
            THEN [name |-> "", err |-> manifests.err, buffer |-> buffer]
            ELSE IF first.err # NoError
            THEN [name |-> first.name, err |-> first.err, buffer |-> buffer]
            ELSE IF skipped(skip, first.name)
            THEN [name |-> first.name, err |-> NoError, buffer |-> buffer]
            ELSE IF first.name = ""
            THEN [name |-> "", err |-> ErrNoPlr(plrPath), buffer |-> buffer]
            ELSE [name |-> first.name, err |-> NoError,
                  buffer |-> WriteDocument(buffer, first.rule[1])]
    ELSE [name |-> synthesizedName(policyConf), err |-> NoError,
          buffer |-> WriteDocument(buffer,
                        synthesizedPlacementRule(plugin, policyConf, rangedKeys))]

(***************************************************************************)
(* Plugin.createPlacementBinding                                           *)
(***************************************************************************)
\* createPlacementBinding whose placementRef names the binding.
createPlacementBinding_RefBinding(plugin, buffer, bindingName, plrName, policyConfs) ==
    WriteDocument(buffer,
        [apiVersion |-> placementBindingAPIVersion,
         kind |-> placementBindingKind,
         metadata |-> [name |-> bindingName, namespace |-> plugin.PolicyDefaults.Namespace],
         placementRef |-> [apiGroup |-> placementRuleAPIVersion,
                           name |-> bindingName,
                           kind |-> placementRuleKind],
         subjects |-> [k \in 1..Len(policyConfs) |->
                          [apiGroup |-> policyAPIVersion,
                           kind |-> policyKind,
                           name |-> policyConfs[k].Name]]])

createPlacementBinding(plugin, buffer, bindingName, plrName, policyConfs) ==
    WriteDocument(buffer,
        [apiVersion |-> placementBindingAPIVersion,
         kind |-> placementBindingKind,
         metadata |-> [name |-> bindingName, namespace |-> plugin.PolicyDefaults.Namespace],
         placementRef |-> [apiGroup |-> placementRuleAPIVersion,
                           name |-> plrName,
                           kind |-> placementRuleKind],
         subjects |-> [k \in 1..Len(policyConfs) |->
                          [apiGroup |-> policyAPIVersion,
                           kind |-> policyKind,
                           name |-> policyConfs[k].Name]]])

(***************************************************************************)
(* The configurations yaml.Unmarshal hands to Config.                      *)
(***************************************************************************)
SeqsUpTo(S, n) == UNION {[1..k -> S] : k \in 0..n}

ClusterSelectorChoices == {EmptyMap, "env" :> "dev"}

\* The k-th name a configuration introduces.
PolicyNameAt(k) == "p" \o ToString(k)

\* Validation inputs: every field the validator reads takes good and bad
\* values.  The validator only compares names and tests them for emptiness,
\* so a name list is an unset name, a repeated name or the next new name at
\* every position.
RawManifestLists(m) == {[k \in DOMAIN paths |-> manifest(paths[k])] :
                           paths \in SeqsUpTo({"", "nofile", "cm.yaml"}, m)}

RawPlacements ==
    {[ClusterSelectors |-> EmptyMap, PlacementRulePath |-> ""],
     [ClusterSelectors |-> EmptyMap, PlacementRulePath |-> "nofile"],
     [ClusterSelectors |-> "env" :> "dev", PlacementRulePath |-> "nofile"],
     [ClusterSelectors |-> "env" :> "dev", PlacementRulePath |-> "plrA.yaml"]}

RawNameLists(n) ==
    {names \in [1..n -> {""} \cup {PolicyNameAt(k) : k \in 1..n}] :
        \A k \in 1..n :
            LET earlier == {names[j] : j \in 1..(k - 1)} \ {""}
            IN  names[k] \in {"", PolicyNameAt(Cardinality(earlier) + 1)} \cup earlier}

\* The lists of n policies of at most m manifests each.
RawPolicies(n, m) ==
    {[k \in 1..n |-> policyConfig(names[k], bodies[k][1], bodies[k][2].ClusterSelectors,
                                  bodies[k][2].PlacementRulePath)] :
        names \in RawNameLists(n),
        bodies \in [1..n -> RawManifestLists(m) \X RawPlacements]}

\* The longest manifest list in a validation input of n policies.
RawManifestsAt(n) ==
    CHOOSE m \in 0..MaxManifests :
        /\ n * m <= MaxRawSlots
        /\ \A longer \in (m + 1)..MaxManifests : n * longer > MaxRawSlots

RawPlugin(bindingName, namespace, policies) ==
    Plugin(bindingName, namespace, EmptyMap, "", policies)

\* Generation inputs: policy k is named p<k>, every manifest and placement
\* path exists, and the placements mix selectors, shared and distinct
\* placement files, and files Generate rejects.
GenPlacements ==
    {[ClusterSelectors |-> selectors, PlacementRulePath |-> ""] :
        selectors \in ClusterSelectorChoices}
    \cup {[ClusterSelectors |-> EmptyMap, PlacementRulePath |-> path] :
        path \in {"plrA.yaml", "plrX.yaml", "plrY.yaml", "plrOther.yaml"}}

GenShapes ==
    {[Path |-> "cm.yaml", Placement |-> placement] : placement \in GenPlacements}
    \cup {[Path |-> "empty.yaml",
           Placement |-> [ClusterSelectors |-> EmptyMap, PlacementRulePath |-> ""]]}

GenPolicyLists ==
    {[k \in DOMAIN shapes |->
        policyConfig(PolicyNameAt(k), <<manifest(shapes[k].Path)>>,
                     shapes[k].Placement.ClusterSelectors,
                     shapes[k].Placement.PlacementRulePath)] :
        shapes \in SeqsUpTo(GenShapes, MaxPolicies) \ {<<>>}}

GenDefaultPlacements ==
    {[ClusterSelectors |-> EmptyMap, PlacementRulePath |-> ""],
     [ClusterSelectors |-> "env" :> "dev", PlacementRulePath |-> "plrA.yaml"]}

GenPlugins ==
    {Plugin(bindingName, "ns", defaults.ClusterSelectors, defaults.PlacementRulePath, policies) :
        bindingName \in {"", "binding"},
        defaults \in GenDefaultPlacements,
        policies \in GenPolicyLists}

\* Defaulting inputs: one policy of a valid configuration and the global
\* defaults take every combination of unset, explicitly empty and set list
\* fields, or of unset and set string fields, namespace selectors and
\* placements; the other policies configure nothing but their name and
\* manifests.
ListChoices(elem) == {NilSlice, Slice(<<>>), Slice(<<elem>>)}

StringChoices(value) == {"", value}

NamespaceSelectorChoices(namespace) ==
    {namespaceSelector(NilSlice, NilSlice),
     namespaceSelector(Slice(<<namespace>>), NilSlice),
     namespaceSelector(NilSlice, Slice(<<namespace>>)),
     namespaceSelector(Slice(<<>>), NilSlice)}

PlacementChoices(selectors, path) ==
    {[ClusterSelectors |-> s, PlacementRulePath |-> q] :
        s \in {EmptyMap, selectors}, q \in {"", path}}

\* The list fields, the string fields, or the selector and the placement of
\* the global defaults (level "global") or of a policy (level "policy").
ListSettings(level) ==
    [Categories : ListChoices(level \o " category"),
     Controls : ListChoices(level \o " control"),
     Standards : ListChoices(level \o " standard")]

StringSettings(level) ==
    [ComplianceType : StringChoices(IF level = "global" THEN "mustonlyhave" ELSE "mustnothave"),
     RemediationAction : StringChoices(IF level = "global" THEN "enforce" ELSE "inform"),
     Severity : StringChoices(IF level = "global" THEN "high" ELSE "medium")]

SelectorSettings(level) ==
    [NamespaceSelector : NamespaceSelectorChoices(level \o "-namespace"),
     Placement : PlacementChoices(IF level = "global" THEN "env" :> "dev" ELSE "zebra" :> "x",
                                  IF level = "global" THEN "plrA.yaml" ELSE "plrX.yaml")]

SettingsOf(group, level) ==
    CASE group = "lists" -> ListSettings(level)
      [] group = "strings" -> StringSettings(level)
      [] group = "selectors" -> SelectorSettings(level)

\* The record with the fields of settings replaced.
withSettings(record, settings) ==
    [field \in DOMAIN record |->
        IF field \in DOMAIN settings THEN settings[field] ELSE record[field]]

\* n policies of which the k-th has the given settings.
DefaultingPolicies(n, k, settings) ==
    [j \in 1..n |->
        LET plain == policyConfig(PolicyNameAt(j), <<manifest("cm.yaml")>>, EmptyMap, "")
        IN  IF j = k THEN withSettings(plain, settings) ELSE plain]

DefaultingPlugin(bindingName, global, policies) ==
    LET plain == Plugin(bindingName, "ns", EmptyMap, "", policies)
    IN  [plain EXCEPT !.PolicyDefaults = withSettings(@, global)]

\* Loading inputs: one policy of a valid configuration takes every short
\* list of manifest files and directories, or every kind of placement; the
\* other policies have one manifest and no placement.
ManifestPaths ==
    {"cm.yaml", "empty.yaml", "two.yaml", "mixed.yaml", "bad.yaml",
     "dir", "configs", "emptydir", "blankdir"}

LoadedManifestLists ==
    {[k \in DOMAIN paths |-> manifest(paths[k])] :
        paths \in SeqsUpTo(ManifestPaths, MaxLoadedManifests) \ {<<>>}}

PlacementPaths ==
    {"plrA.yaml", "plrX.yaml", "plrOther.yaml", "plrNoName.yaml", "plrNoNs.yaml",
     "plrEmptyName.yaml", "cm.yaml", "empty.yaml", "mixed.yaml", "bad.yaml", "dir"}

LoadedSelectors == {EmptyMap, "env" :> "dev", ("zebra" :> "x") @@ ("apple" :> "y")}

LoadedShapes ==
    {[Manifests |-> manifests, ClusterSelectors |-> EmptyMap, PlacementRulePath |-> ""] :
        manifests \in LoadedManifestLists}
    \cup {[Manifests |-> <<manifest("cm.yaml")>>, ClusterSelectors |-> selectors,
           PlacementRulePath |-> ""] : selectors \in LoadedSelectors}
    \cup {[Manifests |-> <<manifest("cm.yaml")>>, ClusterSelectors |-> EmptyMap,
           PlacementRulePath |-> path] : path \in PlacementPaths}

\* n policies of which the k-th has the given shape.
LoadedPolicies(n, k, shape) ==
    [j \in 1..n |->
        IF j = k
        THEN policyConfig(PolicyNameAt(j), shape.Manifests, shape.ClusterSelectors,
                          shape.PlacementRulePath)
        ELSE policyConfig(PolicyNameAt(j), <<manifest("cm.yaml")>>, EmptyMap, "")]

\* Inputs of a Plugin whose Generate is called again: the loading shapes
\* of one manifest entry.
RepeatedShapes == {shape \in LoadedShapes : Len(shape.Manifests) = 1}

(***************************************************************************)
(* One Plugin, as its callers use it: Config, then, when Config returned   *)
(* no error, Generate.                                                     *)
(***************************************************************************)
VARIABLES
    p,                    \* the exported fields of the Plugin
    outputBuffer,         \* p.outputBuffer
    pc,                   \* where the caller and Generate are
    err,                  \* the error Config or Generate returned
    output,               \* the bytes Generate returned
    i,                    \* the index of the running loop of Generate
    seen,                 \* Generate's seen
    plrNameToPolicyIdxs,  \* Generate's plrNameToPolicyIdxs
    plcBindingCount,      \* Generate's plcBindingCount
    ranged,               \* the keys the range over plrNameToPolicyIdxs has yielded
    generators,           \* main's generators that are not yet written
    mainOutputBuffer,     \* main's outputBuffer
    calls                 \* the calls of Generate on the Plugin that have returned

vars == <<p, outputBuffer, pc, err, output, i, seen, plrNameToPolicyIdxs,
          plcBindingCount, ranged, generators, mainOutputBuffer, calls>>

locals == <<i, seen, plrNameToPolicyIdxs, plcBindingCount, ranged>>

\* What the caller of the Plugin holds.
caller == <<generators, mainOutputBuffer, calls>>

Init ==
    /\ \/ \E n \in 0..MaxRawPolicies :
             \E policies \in RawPolicies(n, RawManifestsAt(n)),
                bindingName \in {"", "binding"}, namespace \in {"", "ns"} :
                p = RawPlugin(bindingName, namespace, policies)
       \/ p \in GenPlugins
    /\ outputBuffer = <<>>
    /\ pc = "new"
    /\ err = NoError
    /\ output = NilSlice
    /\ i = 1
    /\ seen = {}
    /\ plrNameToPolicyIdxs = [name \in {} |-> <<>>]
    /\ plcBindingCount = 0
    /\ ranged = {}
    /\ generators = <<>>
    /\ mainOutputBuffer = <<>>
    /\ calls = 0

\* Plugin.Config after yaml.Unmarshal
Config ==
    /\ pc = "new"
    /\ p' = applyDefaults(p)
    /\ err' = assertValidConfig(p')
    /\ pc' = IF err' = NoError THEN "createPolicy" ELSE "configFailed"
    /\ UNCHANGED <<outputBuffer, output, locals, caller>>

\* One iteration of the first loop of Generate.
GenerateCreatePolicy ==
    /\ pc = "createPolicy"
    /\ LET created == createPolicy(p, outputBuffer, p.Policies[i]) IN
       /\ outputBuffer' = created.buffer
       /\ err' = created.err
       /\ IF created.err # NoError
          THEN pc' = "generateFailed" /\ i' = i
          ELSE IF i < Len(p.Policies)
          THEN pc' = pc /\ i' = i + 1
          ELSE pc' = "createPlacementRule" /\ i' = 1
    /\ UNCHANGED <<p, output, seen, plrNameToPolicyIdxs, plcBindingCount, ranged, caller>>

\* append(plrNameToPolicyIdxs[plrName], idx)
appendIdx(idxs, plrName, idx) ==
    IF plrName \in DOMAIN idxs
    THEN [idxs EXCEPT ![plrName] = Append(@, idx)]
    ELSE idxs @@ (plrName :> <<idx>>)

\* One iteration of the second loop of Generate; the range over the
\* selectors of the policy yields the keys in any order.
GenerateCreatePlacementRule ==
    /\ pc = "createPlacementRule"
    /\ \E rangedKeys \in KeyOrders(p.Policies[i].Placement.ClusterSelectors) :
       LET created == createPlacementRule(p, outputBuffer, p.Policies[i], seen, rangedKeys) IN
       /\ outputBuffer' = created.buffer
       /\ err' = created.err
       /\ IF created.err # NoError
          THEN /\ pc' = "generateFailed"
               /\ UNCHANGED <<i, seen, plrNameToPolicyIdxs>>
          ELSE /\ plrNameToPolicyIdxs' = appendIdx(plrNameToPolicyIdxs, created.name, i)
               /\ seen' = seen \cup {created.name}
               /\ IF i < Len(p.Policies)
                  THEN pc' = pc /\ i' = i + 1
                  ELSE pc' = "createPlacementBinding" /\ i' = 1
    /\ UNCHANGED <<p, output, plcBindingCount, ranged, caller>>

\* policyConfs of one group: "for i := range policyIdxs" yields the
\* positions in policyIdxs, and the policy at each position is appended.
policyConfsOf(plugin, policyIdxs) == [k \in 1..Len(policyIdxs) |-> plugin.Policies[k]]

\* bindingNameOf with the count of the bindings before this one as suffix.
bindingNameOf_CountBefore(plugin, count) ==
    IF count = 1 THEN plugin.PlacementBindingDefaults.Name
    ELSE plugin.PlacementBindingDefaults.Name \o ToString(count - 1)

\* The name of the plcBindingCount-th binding.
bindingNameOf(plugin, count) ==
    IF count = 1 THEN plugin.PlacementBindingDefaults.Name
    ELSE plugin.PlacementBindingDefaults.Name \o ToString(count)

\* The range over plrNameToPolicyIdxs as that over a map that keeps its keys
\* in the order of their insertion.
GenerateCreatePlacementBinding_InsertionOrder ==
    /\ pc = "createPlacementBinding"
    /\ \E plrName \in DOMAIN plrNameToPolicyIdxs \ ranged :
        /\ \A other \in DOMAIN plrNameToPolicyIdxs \ ranged :
              plrNameToPolicyIdxs[plrName][1] <= plrNameToPolicyIdxs[other][1]
        /\ plcBindingCount' = plcBindingCount + 1
        /\ outputBuffer' = createPlacementBinding(p, outputBuffer,
                                bindingNameOf(p, plcBindingCount'), plrName,
                                policyConfsOf(p, plrNameToPolicyIdxs[plrName]))
        /\ ranged' = ranged \cup {plrName}
    /\ UNCHANGED <<p, pc, err, output, i, seen, plrNameToPolicyIdxs, caller>>

\* One iteration of the range over plrNameToPolicyIdxs, which yields the
\* keys in any order.
GenerateCreatePlacementBinding ==
    /\ pc = "createPlacementBinding"
    /\ \E plrName \in DOMAIN plrNameToPolicyIdxs \ ranged :
        /\ plcBindingCount' = plcBindingCount + 1
        /\ outputBuffer' = createPlacementBinding(p, outputBuffer,
                                bindingNameOf(p, plcBindingCount'), plrName,
                                policyConfsOf(p, plrNameToPolicyIdxs[plrName]))
        /\ ranged' = ranged \cup {plrName}
    /\ UNCHANGED <<p, pc, err, output, i, seen, plrNameToPolicyIdxs, caller>>

\* return p.outputBuffer.Bytes(), nil
GenerateReturn ==
    /\ pc = "createPlacementBinding"
    /\ ranged = DOMAIN plrNameToPolicyIdxs
    /\ output' = Slice(outputBuffer)
    /\ pc' = "generated"
    /\ UNCHANGED <<p, outputBuffer, err, locals, caller>>

\* The same Plugin on the defaulting inputs; a configuration may have no
\* policy, and then no position takes the settings.
InitDefaults ==
    /\ \E n \in 0..MaxDefaultedPolicies, group \in {"lists", "strings", "selectors"} :
          \E k \in (IF n = 0 THEN {0} ELSE 1..n), bindingName \in {"", "binding"} :
             \E global \in SettingsOf(group, "global"), settings \in SettingsOf(group, "policy") :
                p = DefaultingPlugin(bindingName, global, DefaultingPolicies(n, k, settings))
    /\ outputBuffer = <<>>
    /\ pc = "new"
    /\ err = NoError
    /\ output = NilSlice
    /\ i = 1
    /\ seen = {}
    /\ plrNameToPolicyIdxs = [name \in {} |-> <<>>]
    /\ plcBindingCount = 0
    /\ ranged = {}
    /\ generators = <<>>
    /\ mainOutputBuffer = <<>>
    /\ calls = 0

\* The same Plugin on the loading inputs.
InitLoading ==
    /\ \E n \in 1..MaxLoadedPolicies :
          \E k \in 1..n, bindingName \in {"", "binding"}, shape \in LoadedShapes :
             p = Plugin(bindingName, "ns", EmptyMap, "", LoadedPolicies(n, k, shape))
    /\ outputBuffer = <<>>
    /\ pc = "new"
    /\ err = NoError
    /\ output = NilSlice
    /\ i = 1
    /\ seen = {}
    /\ plrNameToPolicyIdxs = [name \in {} |-> <<>>]
    /\ plcBindingCount = 0
    /\ ranged = {}
    /\ generators = <<>>
    /\ mainOutputBuffer = <<>>
    /\ calls = 0

Next ==
    \/ Config
    \/ GenerateCreatePolicy
    \/ GenerateCreatePlacementRule
    \/ GenerateCreatePlacementBinding
    \/ GenerateReturn

Spec == Init /\ [][Next]_vars

SpecDefaults == InitDefaults /\ [][Next]_vars

SpecLoading == InitLoading /\ [][Next]_vars

(***************************************************************************)
(* A caller that calls Generate again on the Plugin after a call returned. *)
(***************************************************************************)
InitRepeat ==
    /\ \E n \in 1..MaxRepeatedPolicies :
          \E k \in 1..n, bindingName \in {"", "binding"}, shape \in RepeatedShapes :
             p = Plugin(bindingName, "ns", EmptyMap, "", LoadedPolicies(n, k, shape))
    /\ outputBuffer = <<>>
    /\ pc = "new"
    /\ err = NoError
    /\ output = NilSlice
    /\ i = 1
    /\ seen = {}
    /\ plrNameToPolicyIdxs = [name \in {} |-> <<>>]
    /\ plcBindingCount = 0
    /\ ranged = {}
    /\ generators = <<>>
    /\ mainOutputBuffer = <<>>
    /\ calls = 0

\* A further call of Generate that starts on an empty output buffer.
GenerateAgain_ResetBuffer ==
    /\ pc \in {"generated", "generateFailed"}
    /\ calls + 1 < MaxGenerateCalls
    /\ calls' = calls + 1
    /\ pc' = "createPolicy"
    /\ outputBuffer' = <<>>
    /\ i' = 1
    /\ seen' = {}
    /\ plrNameToPolicyIdxs' = [name \in {} |-> <<>>]
    /\ plcBindingCount' = 0
    /\ ranged' = {}
    /\ UNCHANGED <<p, err, output, generators, mainOutputBuffer>>

\* A further call of Generate on the Plugin: the variables of Generate are
\* new, the fields of the Plugin, its output buffer among them, are as the
\* call before left them.
GenerateAgain ==
    /\ pc \in {"generated", "generateFailed"}
    /\ calls + 1 < MaxGenerateCalls
    /\ calls' = calls + 1
    /\ pc' = "createPolicy"
    /\ i' = 1
    /\ seen' = {}
    /\ plrNameToPolicyIdxs' = [name \in {} |-> <<>>]
    /\ plcBindingCount' = 0
    /\ ranged' = {}
    /\ UNCHANGED <<p, outputBuffer, err, output, generators, mainOutputBuffer>>

NextRepeat ==
    \/ Config
    \/ GenerateCreatePolicy
    \/ GenerateCreatePlacementRule
    \/ GenerateCreatePlacementBinding
    \/ GenerateReturn
    \/ GenerateAgain

SpecRepeat == InitRepeat /\ [][NextRepeat]_vars

(***************************************************************************)
(* main: one ReadGeneratorConfig, with a Plugin of its own, for each       *)
(* generator config file, and the outputs written to one buffer that is    *)
(* printed at the end.                                                     *)
(***************************************************************************)
\* The generator config files, each as yaml.Unmarshal leaves a new Plugin.
ConfigFiles ==
    ("one.yaml" :>
        Plugin("", "ns", EmptyMap, "",
               <<policyConfig("p1", <<manifest("cm.yaml")>>, EmptyMap, "")>>))
    @@ ("other.yaml" :>
        [Plugin("other", "prod", EmptyMap, "",
                <<policyConfig("app", <<manifest("configs")>>, "zebra" :> "x", "")>>)
            EXCEPT !.PolicyDefaults.Severity = "high",
                   !.PolicyDefaults.Standards = Slice(<<"other standard">>)])
    @@ ("groups.yaml" :>
        Plugin("binding", "ns", "env" :> "dev", "",
               <<policyConfig("p1", <<manifest("two.yaml")>>, EmptyMap, ""),
                 policyConfig("p2", <<manifest("cm.yaml")>>, EmptyMap, "plrA.yaml"),
                 policyConfig("p3", <<manifest("dir")>>, EmptyMap, "plrA.yaml")>>))
    @@ ("invalid.yaml" :>
        Plugin("binding", "", EmptyMap, "",
               <<policyConfig("p1", <<manifest("cm.yaml")>>, EmptyMap, "")>>))
    @@ ("nodocs.yaml" :>
        Plugin("binding", "ns", EmptyMap, "",
               <<policyConfig("p1", <<manifest("cm.yaml")>>, EmptyMap, ""),
                 policyConfig("p2", <<manifest("empty.yaml")>>, EmptyMap, "")>>))

\* The arguments of main: config files that exist and one that does not.
GeneratorPaths == DOMAIN ConfigFiles \cup {"absent.yaml"}

\* internal.Plugin{}
NewPlugin == Plugin("", "", EmptyMap, "", <<>>)

InitRun ==
    /\ generators \in SeqsUpTo(GeneratorPaths, MaxGenerators) \ {<<>>}
    /\ mainOutputBuffer = <<>>
    /\ pc = "main"
    /\ p = NewPlugin
    /\ outputBuffer = <<>>
    /\ err = NoError
    /\ output = NilSlice
    /\ i = 1
    /\ seen = {}
    /\ plrNameToPolicyIdxs = [name \in {} |-> <<>>]
    /\ plcBindingCount = 0
    /\ ranged = {}
    /\ calls = 0

\* ReadGeneratorConfig on the Plugin of the file before, with its output
\* buffer.
ReadGeneratorConfig_SharedPlugin ==
    /\ pc = "main"
    /\ generators # <<>>
    /\ IF Head(generators) \notin DOMAIN ConfigFiles
       THEN /\ pc' = "exited"
            /\ UNCHANGED <<p, outputBuffer, err, output, locals>>
       ELSE /\ pc' = "new"
            /\ p' = ConfigFiles[Head(generators)]
            /\ outputBuffer' = outputBuffer
            /\ err' = NoError
            /\ output' = NilSlice
            /\ i' = 1
            /\ seen' = {}
            /\ plrNameToPolicyIdxs' = [name \in {} |-> <<>>]
            /\ plcBindingCount' = 0
            /\ ranged' = {}
    /\ UNCHANGED caller

\* ReadGeneratorConfig up to the call of Config: a new Plugin, and the file
\* read and unmarshalled into it; errorAndExit when the file cannot be read.
ReadGeneratorConfig ==
    /\ pc = "main"
    /\ generators # <<>>
    /\ IF Head(generators) \notin DOMAIN ConfigFiles
       THEN /\ pc' = "exited"
            /\ UNCHANGED <<p, outputBuffer, err, output, locals>>
       ELSE /\ pc' = "new"
            /\ p' = ConfigFiles[Head(generators)]
            /\ outputBuffer' = <<>>
            /\ err' = NoError
            /\ output' = NilSlice
            /\ i' = 1
            /\ seen' = {}
            /\ plrNameToPolicyIdxs' = [name \in {} |-> <<>>]
            /\ plcBindingCount' = 0
            /\ ranged' = {}
    /\ UNCHANGED caller

\* outputBuffer.Write(ReadGeneratorConfig(filePath)) in parseDir
parseDirWrite ==
    /\ pc = "generated"
    /\ generators # <<>>
    /\ mainOutputBuffer' = mainOutputBuffer \o output.elems
    /\ generators' = Tail(generators)
    /\ pc' = "main"
    /\ UNCHANGED <<p, outputBuffer, err, output, locals, calls>>

\* errorAndExit after Config or Generate returned an error: os.Exit(1)
\* before anything is printed.
errorAndExit ==
    /\ pc \in {"configFailed", "generateFailed"}
    /\ generators # <<>>
    /\ pc' = "exited"
    /\ UNCHANGED <<p, outputBuffer, err, output, locals, caller>>

\* fmt.Println(outputBuffer.String())
mainPrintln ==
    /\ pc = "main"
    /\ generators = <<>>
    /\ pc' = "printed"
    /\ UNCHANGED <<p, outputBuffer, err, output, locals, caller>>

NextRun ==
    \/ ReadGeneratorConfig
    \/ Config
    \/ GenerateCreatePolicy
    \/ GenerateCreatePlacementRule
    \/ GenerateCreatePlacementBinding
    \/ GenerateReturn
    \/ parseDirWrite
    \/ errorAndExit
    \/ mainPrintln

SpecRun == InitRun /\ [][NextRun]_vars

(***************************************************************************)
(* Config and Generate on one Plugin as one function of the configuration: *)
(* the outputs Generate may return, one for each order of the range over   *)
(* plrNameToPolicyIdxs.                                                    *)
(***************************************************************************)
\* The first loop of Generate, from policy k on.
RECURSIVE createPolicies(_, _, _)
createPolicies(plugin, k, buffer) ==
    IF k > Len(plugin.Policies) THEN [err |-> NoError, buffer |-> buffer]
    ELSE LET created == createPolicy(plugin, buffer, plugin.Policies[k]) IN
         IF created.err # NoError THEN [err |-> created.err, buffer |-> created.buffer]
         ELSE createPolicies(plugin, k + 1, created.buffer)

\* The second loop of Generate, from policy k on.
RECURSIVE createPlacementRules(_, _, _, _, _)
createPlacementRules(plugin, k, buffer, skip, idxs) ==
    IF k > Len(plugin.Policies) THEN [err |-> NoError, buffer |-> buffer, idxs |-> idxs]
    ELSE LET rangedKeys == CHOOSE keys \in
                              KeyOrders(plugin.Policies[k].Placement.ClusterSelectors) : TRUE
             created == createPlacementRule(plugin, buffer, plugin.Policies[k], skip,
                                            rangedKeys)
         IN IF created.err # NoError
            THEN [err |-> created.err, buffer |-> created.buffer, idxs |-> idxs]
            ELSE createPlacementRules(plugin, k + 1, created.buffer,
                                      skip \cup {created.name},
                                      appendIdx(idxs, created.name, k))

\* The range over plrNameToPolicyIdxs that yields the keys in the given
\* order, from the k-th key on.
RECURSIVE createPlacementBindings(_, _, _, _, _)
createPlacementBindings(plugin, buffer, rangedNames, idxs, k) ==
    IF k > Len(rangedNames) THEN buffer
    ELSE createPlacementBindings(plugin,
            createPlacementBinding(plugin, buffer, bindingNameOf(plugin, k),
                                   rangedNames[k],
                                   policyConfsOf(plugin, idxs[rangedNames[k]])),
            rangedNames, idxs, k + 1)

\* The outputs Generate may return on a Plugin with an empty buffer; none
\* when it returns an error.
GenerateOutputs(plugin) ==
    LET policies == createPolicies(plugin, 1, <<>>)
        placements == createPlacementRules(plugin, 1, policies.buffer, {},
                                           [name \in {} |-> <<>>])
    IN  IF policies.err # NoError THEN {}
        ELSE IF placements.err # NoError THEN {}
        ELSE {createPlacementBindings(plugin, placements.buffer, rangedNames,
                                      placements.idxs, 1) :
                 rangedNames \in KeyOrders(placements.idxs)}

\* The outputs of Config and Generate on a new Plugin for a configuration.
ConfigGenerateOutputs(config) ==
    LET plugin == applyDefaults(config) IN
    IF assertValidConfig(plugin) # NoError THEN {} ELSE GenerateOutputs(plugin)

(***************************************************************************)
(* What the claims speak of: the documents of an output, and the placement *)
(* a policy resolves to, read off the configuration and the files.         *)
(***************************************************************************)
\* The documents of a buffer of the given kind, in buffer order.
DocsOfKind(buffer, kind) == SelectSeq(buffer, LAMBDA chunk : chunk.kind = kind)

\* The metadata.name of each document of a sequence.
NamesOf(docs) == [k \in DOMAIN docs |-> docs[k].metadata.name]

\* The first document of kind PlacementRule of a placement file.
FirstPlacementRuleOf(path) ==
    LET docs == Files[path].docs
        first == CHOOSE k \in DOMAIN docs :
                    /\ docs[k].kind = placementRuleKind
                    /\ \A j \in 1..(k - 1) : docs[j].kind # placementRuleKind
    IN docs[first]

\* The placement name a policy resolves to.
ResolvedNameOf(policy) ==
    IF policy.Placement.PlacementRulePath # ""
    THEN FirstPlacementRuleOf(policy.Placement.PlacementRulePath).metadata.name
    ELSE "placement-" \o policy.Name

\* The distinct placement names of the policies.
ResolvedNames == {ResolvedNameOf(p.Policies[k]) : k \in DOMAIN p.Policies}

\* The names of the policies that resolve to a placement name, in
\* declaration order.
PoliciesResolvingTo(name) ==
    LET policies == SelectSeq(p.Policies, LAMBDA policy : ResolvedNameOf(policy) = name)
    IN [k \in DOMAIN policies |-> policies[k].Name]

\* The decimal numerals of one digit.
Numeral == <<"1", "2", "3", "4", "5", "6", "7", "8", "9">>

\* C1: after a successful Generate the subjects of every PlacementBinding
\* document of the output are exactly the policies that resolved to the
\* binding's placementRef name, one entry each, in declaration order.
C1_BindingSubjects ==
    pc = "generated" =>
        \A k \in DOMAIN output.elems :
            output.elems[k].kind = placementBindingKind =>
                /\ \A s \in DOMAIN output.elems[k].subjects :
                      /\ output.elems[k].subjects[s].kind = policyKind
                      /\ output.elems[k].subjects[s].apiGroup = policyAPIVersion
                /\ [s \in DOMAIN output.elems[k].subjects |->
                        output.elems[k].subjects[s].name]
                   = PoliciesResolvingTo(output.elems[k].placementRef.name)

\* C2: a successful Generate emits one PlacementBinding per distinct
\* resolved placement name; the K bindings are named base, base2, ...,
\* baseK in output order, so their names are pairwise distinct.
C2_BindingNames ==
    pc = "generated" =>
        LET bindings == DocsOfKind(output.elems, placementBindingKind)
            base == p.PlacementBindingDefaults.Name
        IN /\ Len(bindings) = Cardinality(ResolvedNames)
           /\ {bindings[k].placementRef.name : k \in DOMAIN bindings} = ResolvedNames
           /\ \A k \in DOMAIN bindings :
                 /\ k = 1 => bindings[k].metadata.name = base
                 /\ (k > 1 /\ k <= Len(Numeral)) =>
                        bindings[k].metadata.name = base \o Numeral[k]
           /\ \A j, k \in DOMAIN bindings :
                 j # k => bindings[j].metadata.name # bindings[k].metadata.name

\* A successful Generate with three bindings.
C2_Witness ==
    /\ pc = "generated"
    /\ Len(DocsOfKind(output.elems, placementBindingKind)) = 3

\* The placement names in the order the policies first resolve them.
RECURSIVE FirstResolutionOrder(_, _)
FirstResolutionOrder(k, names) ==
    IF k > Len(p.Policies) THEN names
    ELSE IF \E j \in DOMAIN names : names[j] = ResolvedNameOf(p.Policies[k])
    THEN FirstResolutionOrder(k + 1, names)
    ELSE FirstResolutionOrder(k + 1, Append(names, ResolvedNameOf(p.Policies[k])))

\* C3: in the output of a successful Generate every document follows a
\* separator, and the documents are the Policy documents in declaration
\* order, then the placement documents in first-resolution order, each
\* placement once, then the PlacementBinding documents.
C3_DocumentOrder ==
    pc = "generated" =>
        LET out == output.elems
            policies == DocsOfKind(out, policyKind)
            placements == DocsOfKind(out, placementRuleKind)
            bindings == DocsOfKind(out, placementBindingKind)
        IN /\ Len(out) % 2 = 0
           /\ \A k \in DOMAIN out : (out[k] = Separator) <=> (k % 2 = 1)
           /\ NamesOf(policies) = [k \in DOMAIN p.Policies |-> p.Policies[k].Name]
           /\ NamesOf(placements) = FirstResolutionOrder(1, <<>>)
           /\ \A k \in DOMAIN out :
                 k % 2 = 0 =>
                    out[k].kind =
                        IF k <= 2 * Len(policies) THEN policyKind
                        ELSE IF k <= 2 * (Len(policies) + Len(placements))
                        THEN placementRuleKind
                        ELSE placementBindingKind

\* C4: when two or more policies reference a placement file that resolves
\* to one PlacementRule name, that PlacementRule document is in the output
\* of a successful Generate exactly once, and each of these policies got
\* that name.
C4_SharedPlacementOnce ==
    pc = "generated" =>
        \A j, k \in DOMAIN p.Policies :
            (/\ j < k
             /\ p.Policies[j].Placement.PlacementRulePath # ""
             /\ p.Policies[k].Placement.PlacementRulePath # ""
             /\ ResolvedNameOf(p.Policies[j]) = ResolvedNameOf(p.Policies[k]))
            => LET rule == FirstPlacementRuleOf(p.Policies[j].Placement.PlacementRulePath)
               IN /\ Len(SelectSeq(output.elems, LAMBDA chunk : chunk = rule)) = 1
                  /\ rule.metadata.name \in DOMAIN plrNameToPolicyIdxs
                  /\ \E a, b \in DOMAIN plrNameToPolicyIdxs[rule.metadata.name] :
                        /\ plrNameToPolicyIdxs[rule.metadata.name][a] = j
                        /\ plrNameToPolicyIdxs[rule.metadata.name][b] = k

\* C5: after a successful Generate no two placement documents of the
\* output have the same metadata.name.
C5_PlacementNamesDistinct ==
    pc = "generated" =>
        LET placements == DocsOfKind(output.elems, placementRuleKind)
        IN \A j, k \in DOMAIN placements :
              j # k => placements[j].metadata.name # placements[k].metadata.name

(***************************************************************************)
(* The checks of the validator, stated one by one.  A failure has the rank *)
(* of its check: the three checks of the whole configuration come first,   *)
(* then the checks of policy 1, of policy 2, and so on.                    *)
(***************************************************************************)
Rank(policy, check, entry, part) == ((policy * 10 + check) * 100 + entry) * 10 + part

BothPlacementsSet(policy) ==
    /\ policy.Placement.ClusterSelectors # EmptyMap
    /\ policy.Placement.PlacementRulePath # ""

\* The failure of one check, when its condition holds.
Failure(cond, rank, error) == IF cond THEN {[rank |-> rank, err |-> error]} ELSE {}

PolicyCheckFailures(plugin, k) ==
    LET policy == plugin.Policies[k] IN
    Failure(BothPlacementsSet(policy), Rank(k, 1, 0, 0), ErrPlacementBoth)
    \cup Failure(policy.Manifests = <<>>, Rank(k, 2, 0, 0), ErrNoManifests)
    \cup UNION {Failure(policy.Manifests[m].Path = "", Rank(k, 3, m, 1), ErrManifestPathUnset)
                    \cup Failure(/\ policy.Manifests[m].Path # ""
                                 /\ policy.Manifests[m].Path \notin DOMAIN Files,
                                 Rank(k, 3, m, 2), ErrManifestPath(policy.Manifests[m].Path)) :
                m \in DOMAIN policy.Manifests}
    \cup Failure(policy.Name = "", Rank(k, 4, 0, 0), ErrNameUnset)
    \cup Failure(\E j \in 1..(k - 1) : plugin.Policies[j].Name = policy.Name,
                 Rank(k, 5, 0, 0), ErrNameNotUnique(policy.Name))
    \cup Failure(/\ policy.Placement.PlacementRulePath # ""
                 /\ policy.Placement.PlacementRulePath \notin DOMAIN Files,
                 Rank(k, 6, 0, 0), ErrPlacementRulePath(policy.Placement.PlacementRulePath))

CheckFailures(plugin) ==
    Failure(plugin.PlacementBindingDefaults.Name = "" /\ Len(plugin.Policies) > 1,
            Rank(0, 1, 0, 0), ErrBindingName)
    \cup Failure(plugin.PolicyDefaults.Namespace = "", Rank(0, 2, 0, 0), ErrNamespace)
    \cup Failure(plugin.Policies = <<>>, Rank(0, 3, 0, 0), ErrNoPolicies)
    \cup UNION {PolicyCheckFailures(plugin, k) : k \in DOMAIN plugin.Policies}

\* The policies whose name repeats the name of an earlier policy.
Repeating(plugin) ==
    {k \in DOMAIN plugin.Policies :
        \E j \in 1..(k - 1) : plugin.Policies[j].Name = plugin.Policies[k].Name}

\* C6: if Config returns no error, the namespace is non-empty, there is a
\* policy, the policy names are non-empty and pairwise distinct, every
\* policy has a manifest, every manifest path is non-empty, and no policy
\* has both clusterSelectors and placementRulePath.
C6_ValidAfterConfig ==
    pc \notin {"new", "configFailed"} =>
        /\ p.PolicyDefaults.Namespace # ""
        /\ Len(p.Policies) >= 1
        /\ \A k \in DOMAIN p.Policies :
              /\ p.Policies[k].Name # ""
              /\ \A j \in DOMAIN p.Policies :
                    j # k => p.Policies[j].Name # p.Policies[k].Name
              /\ Len(p.Policies[k].Manifests) >= 1
              /\ \A m \in DOMAIN p.Policies[k].Manifests :
                    p.Policies[k].Manifests[m].Path # ""
              /\ ~BothPlacementsSet(p.Policies[k])

\* Config returned no error for two policies, one of which took its
\* placement from defaults that set both placement fields.
C6_Witness ==
    /\ pc = "createPolicy"
    /\ outputBuffer = <<>>
    /\ Len(p.Policies) = 2
    /\ p.PolicyDefaults.Placement.ClusterSelectors # EmptyMap
    /\ p.PolicyDefaults.Placement.PlacementRulePath = "plrA.yaml"
    /\ p.Policies[1].Placement.PlacementRulePath = "plrA.yaml"
    /\ p.Policies[2].Placement.ClusterSelectors # EmptyMap

\* C7 as stated: validating a configuration in which two policies have the
\* identical name fails with the duplicate-name error that names that
\* policy.
C7_DuplicateNameError ==
    (pc # "new" /\ Repeating(p) # {}) =>
        /\ pc = "configFailed"
        /\ \E k \in Repeating(p) : err = ErrNameNotUnique(p.Policies[k].Name)

\* C7 as amended: validating a configuration in which two policies have
\* the identical name fails, and it fails with the duplicate-name error
\* naming the first policy whose name repeats an earlier one unless a check
\* that precedes that policy's duplicate-name check fails.
C7_DuplicateNameFails ==
    (pc # "new" /\ Repeating(p) # {}) =>
        LET first == CHOOSE k \in Repeating(p) : \A j \in Repeating(p) : k <= j
            earlier == {f \in CheckFailures(p) : f.rank < Rank(first, 5, 0, 0)}
        IN /\ pc = "configFailed"
           /\ err # NoError
           /\ earlier = {} => err = ErrNameNotUnique(p.Policies[first].Name)

\* Validation failed with the duplicate-name error for p1.
C7_Witness ==
    /\ pc = "configFailed"
    /\ Repeating(p) # {}
    /\ err = ErrNameNotUnique("p1")

\* C8: validating a configuration with a policy that has both
\* clusterSelectors and placementRulePath set fails, whatever the policy's
\* other fields are.
C8_BothPlacementsRejected ==
    (pc # "new" /\ \E k \in DOMAIN p.Policies : BothPlacementsSet(p.Policies[k])) =>
        /\ pc = "configFailed"
        /\ err # NoError

\* Validation failed for a policy that has both placement fields set, a
\* manifest that exists, a name and a placement path that exists.
C8_Witness ==
    /\ pc = "configFailed"
    /\ err = ErrPlacementBoth
    /\ \E k \in DOMAIN p.Policies :
          /\ BothPlacementsSet(p.Policies[k])
          /\ p.Policies[k].Name # ""
          /\ p.Policies[k].Manifests = <<manifest("cm.yaml")>>
          /\ p.Policies[k].Placement.PlacementRulePath \in DOMAIN Files

\* C9: assertValidConfig reports no error when no check fails, and
\* otherwise the failure of the earliest check in the order: binding name,
\* namespace, policies, then per policy in declaration order: placement
\* exclusion, manifests present, each manifest path set and existing, name
\* set, name not seen before, placement rule path existing.
C9_FirstFailureWins ==
    /\ pc \notin {"new", "configFailed"} => CheckFailures(p) = {}
    /\ pc = "configFailed" =>
          \E f \in CheckFailures(p) :
              /\ err = f.err
              /\ \A g \in CheckFailures(p) : f.rank <= g.rank

\* Validation reported a failure of policy 1 although a different check of
\* policy 2 fails too.
C9_Witness ==
    /\ pc = "configFailed"
    /\ \E f, g \in CheckFailures(p) :
          /\ err = f.err
          /\ f.err # g.err
          /\ f.rank >= Rank(1, 0, 0, 0)
          /\ f.rank < Rank(2, 0, 0, 0)
          /\ g.rank >= Rank(2, 0, 0, 0)

\* C10: defaulting sets an unset binding name to "binding-" + the policy's
\* name when there is exactly one policy, never changes a configured name,
\* and leaves an unset name empty when there are several policies, in
\* which case validation fails with the binding-name error; so the binding
\* name is non-empty whenever Config returns no error.
C10_BindingBaseName ==
    [][pc = "new" =>
        LET old == p.PlacementBindingDefaults.Name
            new == p'.PlacementBindingDefaults.Name
        IN /\ (old = "" /\ Len(p.Policies) = 1) => new = "binding-" \o p.Policies[1].Name
           /\ old # "" => new = old
           /\ (old = "" /\ Len(p.Policies) > 1) => (new = "" /\ err' = ErrBindingName)
           /\ err' = NoError => new # ""]_vars

\* Config returned no error and the binding name is the derived one.
C10_Witness ==
    /\ pc = "createPolicy"
    /\ Len(p.Policies) = 1
    /\ p.PlacementBindingDefaults.Name = "binding-p1"

(***************************************************************************)
(* Defaulting, read off the configuration before and after Config.         *)
(***************************************************************************)
ListFields == {"Categories", "Controls", "Standards"}

StringFields == {"ComplianceType", "RemediationAction", "Severity"}

\* The field is not configured in the record.
Unset(record, field) ==
    IF field \in ListFields THEN record[field].isNil ELSE record[field] = ""

FixedDefaults ==
    [Categories |-> Slice(<<"CM Configuration Management">>),
     Controls |-> Slice(<<"CM-2 Baseline Configuration">>),
     ComplianceType |-> "musthave",
     RemediationAction |-> "inform",
     Severity |-> "low",
     Standards |-> Slice(<<"NIST SP 800-53">>)]

\* C11: when Config defaults a configuration, a field a policy leaves unset
\* becomes the global default when one is configured and the fixed default
\* otherwise.
C11_DefaultPrecedence ==
    [][pc = "new" =>
        \A k \in DOMAIN p.Policies, field \in ListFields \cup StringFields :
            Unset(p.Policies[k], field) =>
                p'.Policies[k][field] =
                    IF Unset(p.PolicyDefaults, field) THEN FixedDefaults[field]
                    ELSE p.PolicyDefaults[field]]_vars

\* A policy received the configured global severity and the fixed
\* categories.
C11_Witness ==
    /\ pc # "new"
    /\ \E k \in DOMAIN p.Policies :
        /\ p.Policies[k].Severity = "high"
        /\ p.Policies[k].Categories = FixedDefaults.Categories

\* The namespaceSelector has include or exclude set.
SelectorSet(selector) == ~selector.Exclude.isNil \/ ~selector.Include.isNil

\* C12: Config keeps every field a policy sets, keeps a namespaceSelector
\* with include or exclude set and copies the default selector otherwise,
\* and keeps every list the global defaults set, an empty list included.
C12_OverridesKept ==
    [][pc = "new" =>
        /\ \A k \in DOMAIN p.Policies :
            /\ \A field \in ListFields \cup StringFields :
                ~Unset(p.Policies[k], field) => p'.Policies[k][field] = p.Policies[k][field]
            /\ p'.Policies[k].NamespaceSelector =
                  IF SelectorSet(p.Policies[k].NamespaceSelector)
                  THEN p.Policies[k].NamespaceSelector
                  ELSE p.PolicyDefaults.NamespaceSelector
        /\ \A field \in ListFields :
            ~Unset(p.PolicyDefaults, field) =>
                p'.PolicyDefaults[field] = p.PolicyDefaults[field]]_vars

\* A policy kept its explicitly empty categories although the global
\* defaults configure some.
C12_Witness ==
    /\ pc # "new"
    /\ p.PolicyDefaults.Categories = Slice(<<"global category">>)
    /\ \E k \in DOMAIN p.Policies : p.Policies[k].Categories = Slice(<<>>)

HasSelectors(placement) == MapLen(placement.ClusterSelectors) > 0

HasPath(placement) == placement.PlacementRulePath # ""

\* C13: Config changes the placement of a policy only when it has neither
\* field; then it takes the default path when there is one, otherwise the
\* default selectors when there are some, and it never makes both set.
C13_PlacementDefaulting ==
    [][pc = "new" =>
        \A k \in DOMAIN p.Policies :
            LET before == p.Policies[k].Placement
                after == p'.Policies[k].Placement
                defaults == p.PolicyDefaults.Placement
            IN  /\ after =
                     IF HasSelectors(before) \/ HasPath(before) THEN before
                     ELSE IF HasPath(defaults)
                     THEN [before EXCEPT !.PlacementRulePath = defaults.PlacementRulePath]
                     ELSE IF HasSelectors(defaults)
                     THEN [before EXCEPT !.ClusterSelectors = defaults.ClusterSelectors]
                     ELSE before
                /\ ~(HasSelectors(before) /\ HasPath(before)) =>
                     ~(HasSelectors(after) /\ HasPath(after))]_vars

\* The global defaults set both fields and a policy took the path alone.
C13_Witness ==
    /\ pc # "new"
    /\ HasSelectors(p.PolicyDefaults.Placement)
    /\ p.PolicyDefaults.Placement.PlacementRulePath = "plrA.yaml"
    /\ \E k \in DOMAIN p.Policies :
        /\ p.Policies[k].Placement.PlacementRulePath = "plrA.yaml"
        /\ ~HasSelectors(p.Policies[k].Placement)

(***************************************************************************)
(* Loading, read off the configuration and the files.                      *)
(***************************************************************************)
\* The file can be read and every document of it is a keyed object.
Loads(path) ==
    /\ path \in DOMAIN Files
    /\ ~Files[path].isDir
    /\ \A k \in DOMAIN Files[path].docs : Files[path].docs[k].isMap

\* The files a manifest entry stands for.
EntryFiles(path) ==
    IF Files[path].isDir
    THEN {PathJoin(path, Files[path].entries[k].name) :
            k \in {j \in DOMAIN Files[path].entries :
                    /\ ~Files[path].entries[j].isDir
                    /\ Files[path].entries[j].ext \in {".yaml", ".yml"}}}
    ELSE {path}

PolicyFiles(policy) ==
    UNION {EntryFiles(policy.Manifests[k].Path) : k \in DOMAIN policy.Manifests}

AllLoad(policy) == \A path \in PolicyFiles(policy) : Loads(path)

\* Every file of the policy loads and none has a document.
YieldsNothing(policy) ==
    AllLoad(policy) /\ \A path \in PolicyFiles(policy) : Files[path].docs = <<>>

\* C14: a step of Generate that fails returns an error and no bytes and
\* appends nothing, no binding is in the buffer then, and no step follows
\* a failure.
C14_FailureAppendsNothing ==
    [][/\ pc # "generateFailed"
       /\ pc' = "generateFailed" =>
            /\ err' # NoError
            /\ output' = NilSlice
            /\ outputBuffer' = outputBuffer
            /\ DocsOfKind(outputBuffer', placementBindingKind) = <<>>]_vars

\* Generate failed after it appended documents.
C14_Witness ==
    /\ pc = "generateFailed"
    /\ DocsOfKind(outputBuffer, policyKind) # <<>>

\* The documents of kind PlacementRule of a file that loads.
PlacementRuleDocs(path) ==
    SelectSeq(Files[path].docs, LAMBDA doc : NestedKind(doc) = placementRuleKind)

\* The names the documents of a placement file have.
PlacementNames(path) ==
    {Files[path].docs[k].metadata.name :
        k \in {j \in DOMAIN Files[path].docs :
                /\ Files[path].docs[j].isMap
                /\ "name" \in DOMAIN Files[path].docs[j].metadata}}

\* The placement file resolves to the name.
Resolves(path, name) ==
    /\ Loads(path)
    /\ PlacementRuleDocs(path) # <<>>
    /\ LET metadata == PlacementRuleDocs(path)[1].metadata IN
        /\ "name" \in DOMAIN metadata
        /\ metadata.name = name
        /\ name # ""
        /\ "namespace" \in DOMAIN metadata
        /\ metadata.namespace = p.PolicyDefaults.Namespace

\* The error of the placement file for the first of its faults.
PlacementFault(path) ==
    IF PlacementRuleDocs(path) = <<>> THEN ErrNoPlr(path)
    ELSE LET metadata == PlacementRuleDocs(path)[1].metadata IN
         IF "name" \notin DOMAIN metadata THEN ErrPlrNoName(path)
         ELSE IF "namespace" \notin DOMAIN metadata THEN ErrPlrNoNamespace(path)
         ELSE IF metadata.namespace # p.PolicyDefaults.Namespace
         THEN ErrPlrNamespace(path, p.PolicyDefaults.Namespace)
         ELSE ErrNoPlr(path)

\* The step resolves the placement of policy i to the name.
ResolvedTo(name) ==
    /\ err' = NoError
    /\ name \in seen'
    /\ name \in DOMAIN plrNameToPolicyIdxs'
    /\ plrNameToPolicyIdxs'[name][Len(plrNameToPolicyIdxs'[name])] = i

\* C15 as stated: an external placement resolves to the name of the first
\* PlacementRule document when the file loads and that document has a
\* non-empty name and the namespace of the policies, and fails otherwise
\* with one of the four placement errors, appending nothing.
C15_ExternalPlacement ==
    [][pc = "createPlacementRule" /\ p.Policies[i].Placement.PlacementRulePath # "" =>
        LET path == p.Policies[i].Placement.PlacementRulePath IN
        IF \E name \in PlacementNames(path) : Resolves(path, name)
        THEN \A name \in PlacementNames(path) : Resolves(path, name) => ResolvedTo(name)
        ELSE /\ err' \in {ErrPlrNoName(path), ErrPlrNoNamespace(path),
                          ErrPlrNamespace(path, p.PolicyDefaults.Namespace), ErrNoPlr(path)}
             /\ Loads(path) => err' = PlacementFault(path)
             /\ outputBuffer' = outputBuffer]_vars

\* C15: as C15_ExternalPlacement, but a file that does not load fails with
\* the error of the manifest loader.
C15_ExternalPlacementOrLoadError ==
    [][pc = "createPlacementRule" /\ p.Policies[i].Placement.PlacementRulePath # "" =>
        LET path == p.Policies[i].Placement.PlacementRulePath IN
        IF \E name \in PlacementNames(path) : Resolves(path, name)
        THEN \A name \in PlacementNames(path) : Resolves(path, name) => ResolvedTo(name)
        ELSE /\ IF Loads(path) THEN err' = PlacementFault(path)
                ELSE err' \in {ErrReadManifestFile(path), ErrYAML, ErrNotYAMLObject}
             /\ outputBuffer' = outputBuffer]_vars

\* Generate failed on a placement file whose first PlacementRule has no
\* name although a later one is complete, or on one that does not load.
C15_Witness ==
    /\ pc = "generateFailed"
    /\ \/ /\ p.Policies[i].Placement.PlacementRulePath = "plrNoName.yaml"
          /\ err = ErrPlrNoName("plrNoName.yaml")
          /\ i = 2
       \/ /\ p.Policies[i].Placement.PlacementRulePath = "mixed.yaml"
          /\ err = ErrNotYAMLObject
          /\ i = 1
          /\ Len(DocsOfKind(outputBuffer, policyKind)) = Len(p.Policies)

\* C16: building the document of a policy fails for want of a non-empty
\* manifest exactly when every file of the policy loads and none has a
\* document; when every file loads and one has a document the policy is
\* appended; a failure appends nothing.
C16_NoManifestDocuments ==
    [][pc = "createPolicy" =>
        LET policy == p.Policies[i] IN
        /\ err' = ErrNoManifestDocs(policy.Name) <=> YieldsNothing(policy)
        /\ AllLoad(policy) /\ ~YieldsNothing(policy) =>
             /\ err' = NoError
             /\ Len(outputBuffer') = Len(outputBuffer) + 2
        /\ err' # NoError => outputBuffer' = outputBuffer]_vars

\* Generate failed on a policy whose manifests are a directory without a
\* document.
C16_Witness ==
    /\ pc = "generateFailed"
    /\ err = ErrNoManifestDocs(p.Policies[i].Name)
    /\ \E k \in DOMAIN p.Policies[i].Manifests :
          p.Policies[i].Manifests[k].Path \in {"emptydir", "blankdir"}

\* C17: a valid configuration of one policy without placement whose binding
\* name is the derived one and whose manifests yield a document never fails
\* in Generate, and its output is the Policy, the synthesized PlacementRule
\* without match expressions and the PlacementBinding of the two, in this
\* order.
C17_SinglePolicyOutput ==
    (/\ pc \notin {"new", "configFailed"}
     /\ Len(p.Policies) = 1
     /\ p.PlacementBindingDefaults.Name = "binding-" \o p.Policies[1].Name
     /\ ~HasSelectors(p.Policies[1].Placement) /\ ~HasPath(p.Policies[1].Placement)
     /\ AllLoad(p.Policies[1]) /\ ~YieldsNothing(p.Policies[1]))
    => /\ pc # "generateFailed"
       /\ pc = "generated" =>
            LET name == p.Policies[1].Name
                docs == output.elems
            IN  /\ ~output.isNil
                /\ Len(docs) = 6
                /\ \A k \in {1, 3, 5} : docs[k] = Separator
                /\ docs[2].kind = policyKind
                /\ docs[2].metadata.name = name
                /\ docs[2].metadata.namespace = p.PolicyDefaults.Namespace
                /\ docs[4].kind = placementRuleKind
                /\ docs[4].metadata.name = "placement-" \o name
                /\ docs[4].spec.clusterSelector.matchExpressions = <<>>
                /\ docs[6].kind = placementBindingKind
                /\ docs[6].metadata.name = "binding-" \o name
                /\ docs[6].placementRef.name = "placement-" \o name
                /\ docs[6].placementRef.kind = placementRuleKind
                /\ Len(docs[6].subjects) = 1
                /\ docs[6].subjects[1].name = name
                /\ docs[6].subjects[1].kind = policyKind

\* Generate returned the output of one policy whose manifests are a
\* directory.
C17_Witness ==
    /\ pc = "generated"
    /\ Len(p.Policies) = 1
    /\ p.PlacementBindingDefaults.Name = "binding-p1"
    /\ ~HasSelectors(p.Policies[1].Placement) /\ ~HasPath(p.Policies[1].Placement)
    /\ p.Policies[1].Manifests[1].Path = "dir"

\* The match expressions are those of the selectors, one for each key, in
\* ascending order of the keys.
ExpressionsOf(exprs, selectors) ==
    /\ Len(exprs) = Cardinality(DOMAIN selectors)
    /\ {exprs[k].key : k \in DOMAIN exprs} = DOMAIN selectors
    /\ \A k \in DOMAIN exprs :
        /\ exprs[k].operator = "In"
        /\ exprs[k].values = <<selectors[exprs[k].key]>>
    /\ \A j, k \in DOMAIN exprs : j < k => StringLess(exprs[j].key, exprs[k].key)

\* C18: the placement synthesized for a policy has one match expression for
\* each of its selectors, in ascending order of the keys, in whatever order
\* the range over the selectors yields them.
C18_MatchExpressionsSorted ==
    [][pc = "createPlacementRule" /\ ~HasPath(p.Policies[i].Placement) =>
        /\ Len(outputBuffer') = Len(outputBuffer) + 2
        /\ LET rule == outputBuffer'[Len(outputBuffer')] IN
            /\ rule.kind = placementRuleKind
            /\ ExpressionsOf(rule.spec.clusterSelector.matchExpressions,
                             p.Policies[i].Placement.ClusterSelectors)]_vars

\* A placement with the two match expressions of a policy is in the buffer.
C18_Witness ==
    \E k \in DOMAIN outputBuffer :
        /\ outputBuffer[k].kind = placementRuleKind
        /\ "spec" \in DOMAIN outputBuffer[k]
        /\ Len(outputBuffer[k].spec.clusterSelector.matchExpressions) = 2
        /\ outputBuffer[k].spec.clusterSelector.matchExpressions[1].key = "apple"

RECURSIVE SumOver(_, _)
SumOver(counts, k) == IF k > Len(counts) THEN 0 ELSE counts[k] + SumOver(counts, k + 1)

\* The documents of the files of a manifest entry, in the order of the
\* directory listing.
EntryDocCount(path) ==
    IF Files[path].isDir
    THEN SumOver([k \in DOMAIN Files[path].entries |->
                    IF PathJoin(path, Files[path].entries[k].name) \in EntryFiles(path)
                    THEN Len(Files[PathJoin(path, Files[path].entries[k].name)].docs)
                    ELSE 0], 1)
    ELSE Len(Files[path].docs)

PolicyDocCount(policy) ==
    SumOver([k \in DOMAIN policy.Manifests |-> EntryDocCount(policy.Manifests[k].Path)], 1)

\* C19: every object template of a Policy document in the buffer wraps one
\* document of the manifests of the policy as its objectDefinition, with
\* the complianceType of the policy, and there are as many object
\* templates as documents.
C19_ObjectTemplatesWrapped ==
    \A k \in DOMAIN outputBuffer : outputBuffer[k].kind = policyKind =>
        \E j \in DOMAIN p.Policies :
            LET policy == p.Policies[j]
                entries == outputBuffer[k].spec.policyTemplates[1].objectDefinition
                              .spec.objectTemplates
            IN  /\ policy.Name = outputBuffer[k].metadata.name
                /\ Len(entries) = PolicyDocCount(policy)
                /\ \A e \in DOMAIN entries :
                    /\ DOMAIN entries[e] = {"complianceType", "objectDefinition"}
                    /\ entries[e].complianceType = policy.ComplianceType
                    /\ \E path \in PolicyFiles(policy) :
                          \E d \in DOMAIN Files[path].docs :
                              entries[e].objectDefinition = Files[path].docs[d]

\* The files the configuration names: the manifests and the placements.
ConfiguredFiles ==
    UNION {PolicyFiles(p.Policies[k]) : k \in DOMAIN p.Policies}
    \cup {p.Policies[k].Placement.PlacementRulePath :
            k \in {j \in DOMAIN p.Policies : HasPath(p.Policies[j].Placement)}}

\* C20: the loader returns every document of a file, in the order of the
\* file, when the file can be read and each document is a keyed object, and
\* an error and no document otherwise.
C20_LoaderAllOrNothing ==
    pc # "new" =>
        \A path \in ConfiguredFiles :
            LET loaded == unmarshalManifestFile(path) IN
            IF Loads(path)
            THEN loaded.err = NoError /\ loaded.docs = Files[path].docs
            ELSE loaded.err # NoError /\ loaded.docs = <<>>

\* Generate failed on a file whose first document is a keyed object and
\* whose second is not.
C20_Witness ==
    /\ pc = "generateFailed"
    /\ err = ErrNotYAMLObject
    /\ "mixed.yaml" \in ConfiguredFiles
    /\ Files["mixed.yaml"].docs[1].isMap

\* The paths Generate reads: the manifest entries, the files of the
\* directories among them, and the placement files.
ReferencedPaths ==
    ConfiguredFiles
    \cup UNION {{p.Policies[k].Manifests[m].Path : m \in DOMAIN p.Policies[k].Manifests} :
                  k \in DOMAIN p.Policies}

\* The errors that tell that a path could not be read.
ReadErrors ==
    {ErrReadManifestFile(path) : path \in ReferencedPaths}
    \cup {ErrReadManifestDir(path) : path \in ReferencedPaths}

\* C21: Generate starts on a configuration that is defaulted and validated
\* and whose manifest paths and placement paths all passed os.Stat, and it
\* never fails because one of the paths it refers to cannot be read.
C21_PathsReadableInGenerate ==
    [][/\ (pc = "new" /\ pc' = "createPolicy") =>
            /\ p' = applyDefaults(p)
            /\ assertValidConfig(p') = NoError
            /\ \A k \in DOMAIN p'.Policies :
                /\ \A m \in DOMAIN p'.Policies[k].Manifests :
                      Stat(p'.Policies[k].Manifests[m].Path)
                /\ HasPath(p'.Policies[k].Placement) =>
                      Stat(p'.Policies[k].Placement.PlacementRulePath)
       /\ (pc # "generateFailed" /\ pc' = "generateFailed") => err' \notin ReadErrors]_vars

\* C24: for a policy without placementRulePath the step of Generate appends
\* the separator and one PlacementRule named after the policy, in the
\* namespace of the policies and with the fixed cluster condition, and
\* records the name for the policy, whether or not the name was seen.
C24_SynthesizedPlacement ==
    [][pc = "createPlacementRule" /\ ~HasPath(p.Policies[i].Placement) =>
        LET name == "placement-" \o p.Policies[i].Name
            rule == outputBuffer'[Len(outputBuffer')]
        IN  /\ err' = NoError
            /\ Len(outputBuffer') = Len(outputBuffer) + 2
            /\ SubSeq(outputBuffer', 1, Len(outputBuffer)) = outputBuffer
            /\ outputBuffer'[Len(outputBuffer) + 1] = Separator
            /\ rule.apiVersion = placementRuleAPIVersion
            /\ rule.kind = placementRuleKind
            /\ rule.metadata = [name |-> name, namespace |-> p.PolicyDefaults.Namespace]
            /\ rule.spec.clusterConditions =
                  <<[status |-> "True", type |-> "ManagedClusterConditionAvailable"]>>
            /\ name \in seen'
            /\ name \in DOMAIN plrNameToPolicyIdxs'
            /\ plrNameToPolicyIdxs'[name][Len(plrNameToPolicyIdxs'[name])] = i]_vars

\* A synthesized rule is in the buffer after the rule of a placement file
\* of the same name.
C24_Witness ==
    \E j, k \in DOMAIN outputBuffer :
        /\ j < k
        /\ outputBuffer[j].kind = placementRuleKind
        /\ outputBuffer[k].kind = placementRuleKind
        /\ outputBuffer[j].metadata.name = outputBuffer[k].metadata.name
        /\ "spec" \notin DOMAIN outputBuffer[j]
        /\ "spec" \in DOMAIN outputBuffer[k]

\* The places of the output where a policy is a subject of a binding.
SubjectPlaces(out, name) ==
    {<<b, s>> \in UNION {{<<k, t>> : t \in DOMAIN out[k].subjects} :
                           k \in {d \in DOMAIN out : out[d].kind = placementBindingKind}} :
        out[b].subjects[s].name = name}

\* C27: in the output of a successful Generate every policy of the
\* configuration is a subject at exactly one place: in one binding, once.
C27_EveryPolicyBoundOnce ==
    pc = "generated" =>
        \A k \in DOMAIN p.Policies :
            Cardinality(SubjectPlaces(output.elems, p.Policies[k].Name)) = 1

\* C28: in the output of a successful Generate every binding refers to the
\* name of a placement document of the output, every name Generate resolved
\* has a document, and every placement document is referred to by exactly
\* one binding.
C28_BindingsReferToPlacements ==
    pc = "generated" =>
        LET placements == DocsOfKind(output.elems, placementRuleKind)
            bindings == DocsOfKind(output.elems, placementBindingKind)
        IN  /\ \A b \in DOMAIN bindings :
                  \E d \in DOMAIN placements :
                      placements[d].metadata.name = bindings[b].placementRef.name
            /\ \A name \in DOMAIN plrNameToPolicyIdxs :
                  \E d \in DOMAIN placements : placements[d].metadata.name = name
            /\ \A d \in DOMAIN placements :
                  Cardinality({b \in DOMAIN bindings :
                      bindings[b].placementRef.name = placements[d].metadata.name}) = 1

\* Generate returned the rule of a placement file that two policies share
\* and a synthesized rule, with a binding for each.
C28_Witness ==
    /\ pc = "generated"
    /\ Len(DocsOfKind(output.elems, placementBindingKind)) = 2
    /\ \E name \in DOMAIN plrNameToPolicyIdxs : Len(plrNameToPolicyIdxs[name]) = 2
    /\ \E d \in DOMAIN output.elems :
          output.elems[d].kind = placementRuleKind /\ "spec" \notin DOMAIN output.elems[d]

\* C29: every document of the output of a successful Generate is in the
\* namespace of the policies.
C29_OutputNamespace ==
    pc = "generated" =>
        \A d \in DOMAIN output.elems :
            output.elems[d] # Separator =>
                /\ "namespace" \in DOMAIN output.elems[d].metadata
                /\ output.elems[d].metadata.namespace = p.PolicyDefaults.Namespace

\* Generate returned a Policy, the rule of a placement file and a binding.
C29_Witness ==
    /\ pc = "generated"
    /\ \E d \in DOMAIN output.elems :
          output.elems[d].kind = placementRuleKind /\ "spec" \notin DOMAIN output.elems[d]
    /\ \E d \in DOMAIN output.elems : output.elems[d].kind = policyKind
    /\ \E d \in DOMAIN output.elems : output.elems[d].kind = placementBindingKind

\* C25: Config leaves every global default that was unset at its fixed
\* value, for every configuration, and the only errors of Config are those
\* of the validation.
C25_GlobalDefaults ==
    [][pc = "new" =>
        /\ \A field \in ListFields \cup StringFields :
              Unset(p.PolicyDefaults, field) =>
                  p'.PolicyDefaults[field] = FixedDefaults[field]
        /\ err' # NoError => err' \in {failure.err : failure \in CheckFailures(p')}]_vars

\* C25, for the configurations applyDefaults does not return early on:
\* when there is a policy, Config leaves every global default that was
\* unset at its fixed value; when there is none, Config leaves the
\* configuration as it was and fails in the validation; the only errors
\* of Config are those of the validation.
C25_GlobalDefaultsWithPolicies ==
    [][pc = "new" =>
        /\ Len(p.Policies) >= 1 =>
              \A field \in ListFields \cup StringFields :
                  Unset(p.PolicyDefaults, field) =>
                      p'.PolicyDefaults[field] = FixedDefaults[field]
        /\ Len(p.Policies) = 0 => p' = p /\ err' # NoError
        /\ err' # NoError => err' \in {failure.err : failure \in CheckFailures(p')}]_vars

\* Config defaulted a configuration with a policy whose global defaults
\* set no string and no standards.
C25_Witness ==
    /\ pc # "new"
    /\ Len(p.Policies) >= 1
    /\ \A field \in StringFields : p.PolicyDefaults[field] = FixedDefaults[field]
    /\ p.PolicyDefaults.Standards = FixedDefaults.Standards
    /\ p.PolicyDefaults.Categories # FixedDefaults.Categories

\* The filenames of the directories, in ascending order.
FileNameOrder ==
    <<"a.yaml", "a.yml", "b.yaml", "b.yml", "c.txt", "c.yaml", "e.yaml", "nested",
      "notes.txt", "sub.yaml", "z.json">>

FileNameLess(a, b) ==
    \E j, k \in DOMAIN FileNameOrder :
        j < k /\ FileNameOrder[j] = a /\ FileNameOrder[k] = b

\* The names of the children of a directory that are files with the
\* extension .yaml or .yml, in ascending order.
YAMLChildren(path) ==
    LET entries == Files[path].entries
        names == {entries[k].name : k \in {j \in DOMAIN entries :
                        ~entries[j].isDir /\ entries[j].ext \in {".yaml", ".yml"}}}
    IN  CHOOSE sorted \in [1..Cardinality(names) -> names] :
            \A j, k \in DOMAIN sorted : j < k => FileNameLess(sorted[j], sorted[k])

RECURSIVE Concat(_, _)
Concat(seqs, k) == IF k > Len(seqs) THEN <<>> ELSE seqs[k] \o Concat(seqs, k + 1)

\* The documents of a manifest entry: those of the file, or those of the
\* YAML children of the directory, child by child.
EntryDocs(path) ==
    IF Files[path].isDir
    THEN Concat([k \in DOMAIN YAMLChildren(path) |->
                    Files[PathJoin(path, YAMLChildren(path)[k])].docs], 1)
    ELSE Files[path].docs

\* The documents of the manifest entries of a policy, entry by entry.
PolicyDocs(policy) ==
    Concat([k \in DOMAIN policy.Manifests |-> EntryDocs(policy.Manifests[k].Path)], 1)

\* C26: when the YAML children of the directories and the files of a policy
\* load and have a document, the policy is appended with the documents of
\* its entries as object templates: entry by entry, within a directory the
\* YAML children that are files in ascending order of their names, within
\* a file in the order of the file; no other child of a directory counts.
C26_DirectoryOrder ==
    [][(/\ pc = "createPolicy"
        /\ AllLoad(p.Policies[i])
        /\ PolicyDocs(p.Policies[i]) # <<>>) =>
            /\ err' = NoError
            /\ Len(outputBuffer') = Len(outputBuffer) + 2
            /\ LET policy == outputBuffer'[Len(outputBuffer')] IN
                /\ policy.kind = policyKind
                /\ policy.metadata.name = p.Policies[i].Name
                /\ policy.spec.policyTemplates[1].objectDefinition.spec.objectTemplates
                      = PolicyDocs(p.Policies[i])]_vars

\* A policy of a directory of two YAML files, a subdirectory and another
\* file, followed by a file, is in the buffer.
C26_Witness ==
    \E k \in DOMAIN outputBuffer :
        /\ outputBuffer[k].kind = policyKind
        /\ \E j \in DOMAIN p.Policies :
            /\ p.Policies[j].Name = outputBuffer[k].metadata.name
            /\ p.Policies[j].Manifests = <<manifest("configs"), manifest("two.yaml")>>
        /\ Len(outputBuffer[k].spec.policyTemplates[1].objectDefinition.spec.objectTemplates) = 5

\* C23: when Generate comes to name the bindings, each group that has no
\* binding yet may be the next to get one: with two groups or more the
\* configuration does not fix which group gets the base name and which
\* each suffix.
C23_BindingOrderNotFixed ==
    pc = "createPlacementBinding" =>
        \A plrName \in DOMAIN plrNameToPolicyIdxs \ ranged :
            ENABLED (/\ GenerateCreatePlacementBinding
                     /\ ranged' = ranged \cup {plrName}
                     /\ outputBuffer'[Len(outputBuffer')].placementRef.name = plrName
                     /\ outputBuffer'[Len(outputBuffer')].metadata.name =
                            bindingNameOf(p, plcBindingCount + 1))

\* Generate returned an output whose binding of the base name is not that
\* of the placement the first policy resolved.
C23_Witness ==
    /\ pc = "generated"
    /\ LET bindings == DocsOfKind(output.elems, placementBindingKind) IN
        /\ Len(bindings) >= 2
        /\ bindings[1].metadata.name = p.PlacementBindingDefaults.Name
        /\ bindings[1].placementRef.name # ResolvedNameOf(p.Policies[1])

\* The buffer begins with the earlier buffer.
IsPrefix(earlier, later) ==
    Len(earlier) <= Len(later) /\ SubSeq(later, 1, Len(earlier)) = earlier

\* The chunks of an output before its first binding: the policy and the
\* placement documents with their separators.
BeforeBindings(out) ==
    SubSeq(out, 1, Len(out) - 2 * Len(DocsOfKind(out, placementBindingKind)))

\* C30: no step removes or rewrites a chunk of the output buffer; a
\* Generate that returns no error returns the whole buffer; and a second
\* Generate that returns no error after a first one returns the output of
\* the first followed by a second copy of its policy and placement
\* documents, and after these by bindings only.
C30_BufferAppendOnly ==
    [][/\ IsPrefix(outputBuffer, outputBuffer')
       /\ (pc # "generated" /\ pc' = "generated") =>
            /\ output' = Slice(outputBuffer')
            /\ (calls = 1 /\ ~output.isNil) =>
                 LET first == output.elems
                     second == output'.elems
                     copy == BeforeBindings(first)
                 IN  /\ IsPrefix(first \o copy, second)
                     /\ Len(second) = 2 * Len(first)
                     /\ \A k \in (Len(first) + Len(copy) + 1)..Len(second) :
                           second[k].kind \in {Separator.kind, placementBindingKind}]_vars

\* The second Generate on a Plugin of two policies, one of them with the
\* rule of a placement file, returned no error.
C30_Witness ==
    /\ pc = "generated"
    /\ calls = 1
    /\ Len(p.Policies) = 2
    /\ Len(DocsOfKind(output.elems, policyKind)) = 4
    /\ Len(DocsOfKind(output.elems, placementRuleKind)) = 4
    /\ \E d \in DOMAIN output.elems :
          output.elems[d].kind = placementRuleKind /\ "spec" \notin DOMAIN output.elems[d]

====
